---- MODULE Spec2Model ----
(***************************************************************************)
(* boilerplate-sync: the sync engine (config normalisation, glob           *)
(* expansion, per-file fetch/compare/write, result aggregation).           *)
(*                                                                         *)
(* Strings that the code takes apart (repository identifiers, paths,       *)
(* patterns) are sequences of one-character strings; messages built with   *)
(* template strings are sequences of string pieces; opaque strings (refs,  *)
(* tokens, file contents) are TLA+ strings.                                *)
(***************************************************************************)
EXTENDS Integers, Sequences, FiniteSets, TLC

VARIABLES
  sources, githubToken, createMissing, failOnError,  \* ActionInputs
  fs,                   \* local working tree: path -> [content, mode]
  defaultBranchCache,   \* module-level Map<string,string> of github.ts
  pc,                   \* position inside syncFiles
  normalizedConfigs,    \* result of normalizeSources
  expandedConfigs,      \* `expanded` of expandGlobPatterns
  origin,               \* history: index in normalizedConfigs of each expanded config
  k,                    \* loop index of expandGlobPatterns
  i,                    \* loop index of syncFiles
  exists, fetchResult,  \* locals of syncFile for the task in progress
  existingContent,      \* local of syncFile: what readFile returned
  results, summary,     \* accumulator and return value of syncFiles
  calls,                \* history: every remote call and local file operation
  fs0,                  \* history: the working tree when the current run started
  fsFirst,              \* history: the working tree when the first run started
  run,                  \* number of the current run of syncFiles
  prevSummary,          \* history: the summary returned by the previous run
  sourcesInput,         \* the `sources` input of the action, as YAML reads it
  summaryWritable,      \* whether core.summary.write() can write its file
  outputs,              \* what core.setOutput has been given
  failure               \* what core.setFailed has been given

vars == <<sources, githubToken, createMissing, failOnError, fs,
          defaultBranchCache, pc, normalizedConfigs, expandedConfigs, origin,
          k, i, exists, fetchResult, existingContent, results, summary, calls, fs0, fsFirst,
          run, prevSummary, sourcesInput, summaryWritable, outputs, failure>>

(***************************************************************************)
(* Bounds                                                                  *)
(***************************************************************************)
MaxSources == 2   \* number of SourceConfig entries in inputs.sources
MaxRuns == 2      \* number of consecutive runs of syncFiles in one process
MaxClears == 1    \* number of calls of clearBranchCache

(***************************************************************************)
(* Values                                                                  *)
(***************************************************************************)
Undefined == "undefined"   \* JS undefined for string-valued fields
Null == "null"             \* JS null (readFile of a missing file)

PA == <<"a">>
PB == <<"b">>
PD == <<"d">>
PDA == <<"d", "/", "a">>
PG == <<"*">>
PE == <<"e">>
PZ == <<"z">>
LocalPaths == {PA, PB, PG}

RepoR == <<"o", "/", "r">>
RepoS == <<"o", "/", "s">>
RepoBad == <<"o">>
RepoX == <<"o", "/", "x">>
RepoLong == <<"o", "/", "r", "/", "x">>
RepoNoOwner == <<"/", "r">>

T0 == "T0"
T1 == "T1"
TX == "TX"
ValidTokens == {T0, T1}

\* base64 payloads of the Contents API and what Buffer.from(..).toString yields
Base64Decode == [c \in {"QQ==", "Qg=="} |-> IF c = "QQ==" THEN "A" ELSE "B"]

(***************************************************************************)
(* Generic helpers                                                         *)
(***************************************************************************)
Ok(d) == [ok |-> TRUE, data |-> d]
Fail(m) == [ok |-> FALSE, message |-> m]

RECURSIVE SplitAcc(_, _, _)
SplitAcc(s, sep, cur) ==
  IF s = <<>> THEN <<cur>>
  ELSE IF Head(s) = sep THEN <<cur>> \o SplitAcc(Tail(s), sep, <<>>)
  ELSE SplitAcc(Tail(s), sep, Append(cur, Head(s)))

\* String.prototype.split(sep)
Split(s, sep) == SplitAcc(s, sep, <<>>)

\* `${x}` of a destructured array element that may be missing
Nth(parts, n) == IF n <= Len(parts) THEN parts[n] ELSE <<"undefined">>

RECURSIVE SelectSeqOfReversed(_, _)
SelectSeqOfReversed(s, statusWanted) ==
  IF s = <<>> THEN <<>>
  ELSE IF Head(s).status = statusWanted
       THEN SelectSeqOfReversed(Tail(s), statusWanted) \o <<Head(s)>>
       ELSE SelectSeqOfReversed(Tail(s), statusWanted)

\* Array.prototype.filter
RECURSIVE SelectSeqOf(_, _)
SelectSeqOf(s, statusWanted) ==
  IF s = <<>> THEN <<>>
  ELSE IF Head(s).status = statusWanted
       THEN <<Head(s)>> \o SelectSeqOf(Tail(s), statusWanted)
       ELSE SelectSeqOf(Tail(s), statusWanted)

\* error.message.includes(piece)
Includes(message, piece) == \E n \in 1..Len(message) : message[n] = piece

(***************************************************************************)
(* The remote (GitHub REST API) as seen through Octokit                    *)
(***************************************************************************)
BlobEntry(p, c) == [path |-> p, type |-> "blob", content |-> c]
TreeEntry(p) == [path |-> p, type |-> "tree", content |-> ""]

Trees ==
  [t \in {"tm", "tv", "td", "te"} |->
     CASE t = "tm" -> <<BlobEntry(PB, "Qg=="), TreeEntry(PD),
                        BlobEntry(PDA, "QQ=="), BlobEntry(PA, "QQ==")>>
       [] t = "tv" -> <<BlobEntry(PA, "Qg==")>>
       [] t = "te" -> <<BlobEntry(PE, "")>>
       [] t = "td" -> <<TreeEntry(PD), BlobEntry(PDA, "QQ==")>>]

Remote ==
  [r \in {RepoR, RepoS} |->
     IF r = RepoR
     THEN [default_branch |-> "main",
           heads |-> [n \in {"main"} |-> "tm"],
           tags |-> [n \in {"v1", "v2"} |-> IF n = "v1" THEN "tv" ELSE "te"],
           commits |-> [n \in {"c1"} |-> "tm"]]
     ELSE [default_branch |-> "dev",
           heads |-> [n \in {"dev"} |-> "td"],
           tags |-> [n \in {} |-> "td"],
           commits |-> [n \in {"c2"} |-> "td"]]]

RepoKey(owner, repo) == owner \o <<"/">> \o repo

\* every request: a rejected credential answers 401, an unknown repository 404
Request(owner, repo, token, answer) ==
  IF token \notin ValidTokens THEN Fail(<<"Bad credentials">>)
  ELSE IF RepoKey(owner, repo) \notin DOMAIN Remote THEN Fail(<<"Not Found">>)
  ELSE answer

\* octokit.repos.get
ReposGet(owner, repo, token) ==
  Request(owner, repo, token,
          Ok([default_branch |-> Remote[RepoKey(owner, repo)].default_branch]))

\* octokit.git.getRef with ref `heads/<name>` or `tags/<name>`
GitGetRef(owner, repo, kind, name, token) ==
  Request(owner, repo, token,
    LET r == Remote[RepoKey(owner, repo)]
        table == IF kind = "heads" THEN r.heads ELSE r.tags
    IN IF name \in DOMAIN table THEN Ok([object |-> [sha |-> table[name]]])
       ELSE Fail(<<"Not Found">>))

\* octokit.git.getCommit
GitGetCommit(owner, repo, sha, token) ==
  Request(owner, repo, token,
    LET r == Remote[RepoKey(owner, repo)]
    IN IF sha \in DOMAIN r.commits THEN Ok([tree |-> [sha |-> r.commits[sha]]])
       ELSE Fail(<<"Not Found">>))

\* octokit.git.getTree (recursive)
GitGetTree(owner, repo, treeSha, token) ==
  Request(owner, repo, token,
    IF treeSha \in DOMAIN Trees THEN Ok([tree |-> Trees[treeSha]])
    ELSE Fail(<<"Not Found">>))

\* the tree a ref names for the Contents API (branch, tag or commit)
RefTree(r, ref) ==
  IF ref \in DOMAIN r.heads THEN r.heads[ref]
  ELSE IF ref \in DOMAIN r.tags THEN r.tags[ref]
  ELSE IF ref \in DOMAIN r.commits THEN r.commits[ref]
  ELSE Undefined

\* octokit.repos.getContent
ReposGetContent(owner, repo, path, ref, token) ==
  Request(owner, repo, token,
    LET r == Remote[RepoKey(owner, repo)]
        t == RefTree(r, ref)
    IN IF t = Undefined THEN Fail(<<"Not Found">>)
       ELSE LET hits == {n \in 1..Len(Trees[t]) : Trees[t][n].path = path}
            IN IF hits = {} THEN Fail(<<"Not Found">>)
               ELSE LET e == Trees[t][CHOOSE n \in hits : TRUE]
                    IN IF e.type = "tree" THEN Ok([isArray |-> TRUE])
                       ELSE Ok([isArray |-> FALSE, type |-> "file",
                                content |-> e.content, sha |-> t]))

(***************************************************************************)
(* sources/github.ts                                                       *)
(***************************************************************************)
Call(op, token, arg, res) ==
  [op |-> op, token |-> token, arg |-> arg, ok |-> res.ok]

\* GitHubSource.parseSource
ParseSource(source) ==
  LET parts == Split(source, "/")
  IN IF Len(parts) # 2 \/ parts[1] = <<>> \/ parts[2] = <<>>
     THEN Fail(<<"Invalid source format: '">> \o source
               \o <<"'. Expected 'owner/repo' format.">>)
     ELSE Ok(<<parts[1], parts[2]>>)

\* createGitHubSource / the GitHubSource constructor
CreateGitHubSource(source, path, ref) ==
  LET p == ParseSource(source)
  IN IF p.ok
     THEN Ok([owner |-> p.data[1], repo |-> p.data[2], path |-> path, ref |-> ref])
     ELSE p

\* defaultBranchCache.get(cacheKey) followed by `if (cached)`
CacheHit(cache, cacheKey) == cacheKey \in DOMAIN cache /\ cache[cacheKey] # ""

CacheSetOnly(cache, cacheKey, branch) == [c \in {cacheKey} |-> branch]

\* defaultBranchCache.set(cacheKey, branch)
CacheSet(cache, cacheKey, branch) ==
  [c \in DOMAIN cache \cup {cacheKey} |-> IF c = cacheKey THEN branch ELSE cache[c]]

BranchResult(ok, value, message, cache, log) ==
  [ok |-> ok, value |-> value, message |-> message, cache |-> cache, calls |-> log]

\* getDefaultBranch after the cache missed: repos.get answered `res`
DefaultBranchFrom(cacheKey, token, cache, res) ==
  IF res.ok
  THEN BranchResult(TRUE, res.data.default_branch, <<>>,
                    CacheSet(cache, cacheKey, res.data.default_branch),
                    <<Call("repos.get", token, cacheKey, res)>>)
  ELSE BranchResult(FALSE, "", res.message, cache,
                    <<Call("repos.get", token, cacheKey, res)>>)

GetDefaultBranchUncached(owner, repo, token, cache) ==
  DefaultBranchFrom(RepoKey(owner, repo), token, cache, ReposGet(owner, repo, token))

\* getDefaultBranch (method and standalone function have the same body)
GetDefaultBranch(owner, repo, token, cache) ==
  IF CacheHit(cache, RepoKey(owner, repo))
  THEN BranchResult(TRUE, cache[RepoKey(owner, repo)], <<>>, cache, <<>>)
  ELSE DefaultBranchFrom(RepoKey(owner, repo), token, cache,
                         ReposGet(owner, repo, token))

\* ref ?? await getDefaultBranch(...)
RefOrDefault(ref, owner, repo, token, cache) ==
  IF ref # Undefined THEN BranchResult(TRUE, ref, <<>>, cache, <<>>)
  ELSE GetDefaultBranch(owner, repo, token, cache)

\* the catch block of GitHubSource.fetch
EnhanceError(src, ref, message) ==
  IF Includes(message, "Not Found")
  THEN <<"File not found: ">> \o src.path \o <<" in ">> \o src.owner \o <<"/">>
       \o src.repo \o <<"@", ref>>
  ELSE IF Includes(message, "Bad credentials")
  THEN <<"Authentication failed for ">> \o src.owner \o <<"/">> \o src.repo
       \o <<". Check your token.">>
  ELSE message

\* the try block of GitHubSource.fetch, after the request returned
DecodeContent(src, data) ==
  IF data.isArray
  THEN Fail(<<"Path '">> \o src.path \o <<"' is a directory, not a file">>)
  ELSE IF data.type # "file"
  THEN Fail(<<"Path '">> \o src.path \o <<"' is a ", data.type, ", not a file">>)
  ELSE IF data.content = ""
  THEN Fail(<<"No content returned for '">> \o src.path \o <<"'">>)
  ELSE Ok(Base64Decode[data.content])

FetchOutcome(ok, content, ref, message, cache, log) ==
  [ok |-> ok, content |-> content, resolvedRef |-> ref, message |-> message,
   cache |-> cache, calls |-> log]

\* GitHubSource.fetch: the answer decoded, or the catch block
FetchDecoded(src, br, log, dec) ==
  IF dec.ok
  THEN FetchOutcome(TRUE, dec.data, br.value, <<>>, br.cache, log)
  ELSE FetchOutcome(FALSE, "", "", EnhanceError(src, br.value, dec.message),
                    br.cache, log)

\* GitHubSource.fetch: repos.getContent answered `res`
FetchAnswered(src, token, br, res) ==
  FetchDecoded(src, br,
               br.calls \o <<Call("repos.getContent", token, src.path, res)>>,
               IF res.ok THEN DecodeContent(src, res.data) ELSE res)

\* GitHubSource.fetch once the ref is resolved (or its resolution threw)
FetchWithRef(src, token, br) ==
  IF ~br.ok
  THEN FetchOutcome(FALSE, "", "", br.message, br.cache, br.calls)
  ELSE FetchAnswered(src, token, br,
         ReposGetContent(src.owner, src.repo, src.path, br.value, token))

\* GitHubSource.fetch
GitHubSourceFetch(src, token, cache) ==
  FetchWithRef(src, token, RefOrDefault(src.ref, src.owner, src.repo, token, cache))

GlobChars == {"*", "?", "[", "]", "{", "}"}

\* isGlobPattern
IsGlobPattern(path) == \E n \in 1..Len(path) : path[n] \in GlobChars

\* minimatch(path, pattern, {matchBase: false}) for patterns made of literal
\* characters, `?` and `*` (neither of which matches `/`)
RECURSIVE Minimatch(_, _)
Minimatch(path, pattern) ==
  IF pattern = <<>> THEN path = <<>>
  ELSE IF Head(pattern) = "*"
  THEN \/ Minimatch(path, Tail(pattern))
       \/ path # <<>> /\ Head(path) # "/" /\ Minimatch(Tail(path), pattern)
  ELSE IF Head(pattern) = "?"
  THEN path # <<>> /\ Head(path) # "/" /\ Minimatch(Tail(path), Tail(pattern))
  ELSE path # <<>> /\ Head(path) = Head(pattern)
       /\ Minimatch(Tail(path), Tail(pattern))

\* UTF-16 code units, the order Array.prototype.sort() compares by
CharCode(c) ==
  CASE c = "*" -> 42 [] c = "/" -> 47 [] c = "?" -> 63 [] c = "a" -> 97
    [] c = "b" -> 98 [] c = "d" -> 100 [] c = "o" -> 111 [] c = "r" -> 114
    [] c = "s" -> 115 [] OTHER -> 0

RECURSIVE StrLess(_, _)
StrLess(s, t) ==
  IF t = <<>> THEN FALSE
  ELSE IF s = <<>> THEN TRUE
  ELSE IF Head(s) = Head(t) THEN StrLess(Tail(s), Tail(t))
  ELSE CharCode(Head(s)) < CharCode(Head(t))

RECURSIVE InsertSorted(_, _)
InsertSorted(x, s) ==
  IF s = <<>> THEN <<x>>
  ELSE IF StrLess(Head(s), x) \/ Head(s) = x
       THEN <<Head(s)>> \o InsertSorted(x, Tail(s))
       ELSE <<x>> \o s

\* Array.prototype.sort() on strings
RECURSIVE SortStrings(_)
SortStrings(s) ==
  IF s = <<>> THEN <<>> ELSE InsertSorted(Head(s), SortStrings(Tail(s)))

RECURSIVE MatchingEntries(_, _)
MatchingEntries(tree, pattern) ==
  IF tree = <<>> THEN <<>>
  ELSE IF Head(tree).path # <<>> /\ Minimatch(Head(tree).path, pattern)
  THEN <<Head(tree).path>> \o MatchingEntries(Tail(tree), pattern)
  ELSE MatchingEntries(Tail(tree), pattern)

\* the filter loop of listFilesMatchingGlob
RECURSIVE MatchingFiles(_, _)
MatchingFiles(tree, pattern) ==
  IF tree = <<>> THEN <<>>
  ELSE LET item == Head(tree)
           rest == MatchingFiles(Tail(tree), pattern)
       IN IF item.type = "blob" /\ item.path # <<>> /\ Minimatch(item.path, pattern)
          THEN <<item.path>> \o rest
          ELSE rest

ShaResult(ok, sha, message, log) ==
  [ok |-> ok, sha |-> sha, message |-> message, calls |-> log]

\* the second .catch: getCommit answered `c`
AfterCommit(log, c) ==
  IF c.ok THEN ShaResult(TRUE, c.data.tree.sha, <<>>, log)
  ELSE ShaResult(FALSE, "", c.message, log)

\* the first .catch: getRef(tags/...) answered `t`
AfterTags(owner, repo, resolvedRef, token, log, t) ==
  IF t.ok THEN ShaResult(TRUE, t.data.object.sha, <<>>, log)
  ELSE AfterCommit(
         log \o <<Call("git.getCommit", token, <<resolvedRef>>,
                       GitGetCommit(owner, repo, resolvedRef, token))>>,
         GitGetCommit(owner, repo, resolvedRef, token))

AfterHeadsSkipsTags(owner, repo, resolvedRef, token, log, h) ==
  IF h.ok THEN ShaResult(TRUE, h.data.object.sha, <<>>, log)
  ELSE AfterCommit(
         log \o <<Call("git.getCommit", token, <<resolvedRef>>,
                       GitGetCommit(owner, repo, resolvedRef, token))>>,
         GitGetCommit(owner, repo, resolvedRef, token))

\* getRef(heads/...) answered `h`
AfterHeads(owner, repo, resolvedRef, token, log, h) ==
  IF h.ok THEN ShaResult(TRUE, h.data.object.sha, <<>>, log)
  ELSE AfterTags(owner, repo, resolvedRef, token,
         log \o <<Call("git.getRef", token, <<"tags/", resolvedRef>>,
                       GitGetRef(owner, repo, "tags", resolvedRef, token))>>,
         GitGetRef(owner, repo, "tags", resolvedRef, token))

\* the getRef(heads).catch(getRef(tags)).catch(getCommit) chain
ResolveTreeSha(owner, repo, resolvedRef, token) ==
  AfterHeads(owner, repo, resolvedRef, token,
    <<Call("git.getRef", token, <<"heads/", resolvedRef>>,
           GitGetRef(owner, repo, "heads", resolvedRef, token))>>,
    GitGetRef(owner, repo, "heads", resolvedRef, token))

ListResult(ok, files, message, cache, log) ==
  [ok |-> ok, files |-> files, message |-> message, cache |-> cache, calls |-> log]

\* listFilesMatchingGlob: getTree answered `tr`
ListFromTree(pattern, cache, log, tr) ==
  IF ~tr.ok THEN ListResult(FALSE, <<>>, tr.message, cache, log)
  ELSE ListResult(TRUE, SortStrings(MatchingFiles(tr.data.tree, pattern)), <<>>,
                  cache, log)

\* listFilesMatchingGlob: the ref chain gave `rs`
ListFromSha(owner, repo, pattern, token, br, rs) ==
  IF ~rs.ok THEN ListResult(FALSE, <<>>, rs.message, br.cache, br.calls \o rs.calls)
  ELSE ListFromTree(pattern, br.cache,
         br.calls \o rs.calls
           \o <<Call("git.getTree", token, <<rs.sha>>,
                     GitGetTree(owner, repo, rs.sha, token))>>,
         GitGetTree(owner, repo, rs.sha, token))

\* listFilesMatchingGlob once the ref is resolved (or its resolution threw)
ListWithRef(owner, repo, pattern, token, br) ==
  IF ~br.ok THEN ListResult(FALSE, <<>>, br.message, br.cache, br.calls)
  ELSE ListFromSha(owner, repo, pattern, token, br,
                   ResolveTreeSha(owner, repo, br.value, token))

\* listFilesMatchingGlob
ListFilesMatchingGlob(owner, repo, pattern, ref, token, cache) ==
  ListWithRef(owner, repo, pattern, token,
              RefOrDefault(ref, owner, repo, token, cache))

(***************************************************************************)
(* config.ts                                                               *)
(***************************************************************************)
Has(rec, field) == field \in DOMAIN rec

NormalizedFromDefault(source, filePath) ==
  [local_path |-> filePath, source_path |-> filePath, source |-> source.source,
   ref |-> source.ref, sourceToken |-> source.source_token]

NormalizedFromPairLocalOnly(source, file) ==
  [local_path |-> file.local_path, source_path |-> file.local_path,
   source |-> source.source, ref |-> source.ref,
   sourceToken |-> source.source_token]

NormalizedFromPair(source, file) ==
  [local_path |-> file.local_path,
   source_path |-> IF Has(file, "source_path") THEN file.source_path
                   ELSE file.local_path,
   source |-> source.source, ref |-> source.ref,
   sourceToken |-> source.source_token]

NormalizeOnePairsFirst(source) ==
  (IF Has(source, "file_pairs")
   THEN [n \in 1..Len(source.file_pairs) |->
           NormalizedFromPair(source, source.file_pairs[n])]
   ELSE <<>>)
  \o
  (IF Has(source, "default_files")
   THEN [n \in 1..Len(source.default_files) |->
           NormalizedFromDefault(source, source.default_files[n])]
   ELSE <<>>)

\* the body of the `for (const source of sources)` loop of normalizeSources
NormalizeOne(source) ==
  (IF Has(source, "default_files")
   THEN [n \in 1..Len(source.default_files) |->
           NormalizedFromDefault(source, source.default_files[n])]
   ELSE <<>>)
  \o
  (IF Has(source, "file_pairs")
   THEN [n \in 1..Len(source.file_pairs) |->
           NormalizedFromPair(source, source.file_pairs[n])]
   ELSE <<>>)

\* normalizeSources
RECURSIVE NormalizeSources(_)
NormalizeSources(srcs) ==
  IF srcs = <<>> THEN <<>>
  ELSE NormalizeOne(Head(srcs)) \o NormalizeSources(Tail(srcs))

(***************************************************************************)
(* config.ts: parseSourcesInput and its validators                         *)
(*                                                                         *)
(* A value read from YAML carries its JavaScript type: t is "string"       *)
(* (with the text in s), "number", "null", "array" (with items) or         *)
(* "object" (with the record o of its keys).  The text of a ref is a       *)
(* sequence of blanks and at most one name.                                *)
(***************************************************************************)
Str(s) == [t |-> "string", s |-> s]
Num == [t |-> "number"]
NullValue == [t |-> "null"]
Arr(items) == [t |-> "array", items |-> items]
Obj(o) == [t |-> "object", o |-> o]

\* typeof value
TypeOf(value) == IF value.t \in {"null", "array", "object"} THEN "object" ELSE value.t

\* the keys of entry as Record<string, unknown>
KeysOf(value) == IF value.t = "object" THEN value.o ELSE [n \in {} |-> Num]

\* obj[key] !== undefined
Given(o, key) == key \in DOMAIN o

\* typeof obj[key] === 'string'
IsString(o, key) == key \in DOMAIN o /\ o[key].t = "string"

RECURSIVE TrimStart(_)
TrimStart(s) == IF s # <<>> /\ Head(s) = " " THEN TrimStart(Tail(s)) ELSE s

RECURSIVE TrimEnd(_)
TrimEnd(s) ==
  IF s # <<>> /\ s[Len(s)] = " " THEN TrimEnd(SubSeq(s, 1, Len(s) - 1)) ELSE s

\* String.prototype.trim
Trim(s) == TrimEnd(TrimStart(s))

\* Number.prototype.toString for the numbers that occur
NumberToString(n) ==
  IF n < 10 THEN <<<<"0", "1", "2", "3", "4", "5", "6", "7", "8", "9">>[n + 1]>>
  ELSE <<<<"0", "1", "2", "3", "4", "5", "6", "7", "8", "9">>[(n \div 10) + 1],
         <<"0", "1", "2", "3", "4", "5", "6", "7", "8", "9">>[(n % 10) + 1]>>

\* the name a trimmed ref text denotes
RefString(s) == IF s = <<>> THEN "" ELSE s[1]

\* the FileMapping returned by validateFileMapping
FileMapping(o) ==
  IF IsString(o, "source_path")
  THEN [local_path |-> Trim(o.local_path.s), source_path |-> Trim(o.source_path.s)]
  ELSE [local_path |-> Trim(o.local_path.s)]

\* validateFileMapping, with 1-based positions
ValidateFileMapping(entry, sourceNo, fileNo) ==
  IF TypeOf(entry) # "object" \/ entry.t = "null"
  THEN Fail(<<"Source ">> \o NumberToString(sourceNo) \o <<", file ">>
            \o NumberToString(fileNo)
            \o <<": Expected an object, got ", TypeOf(entry)>>)
  ELSE IF ~IsString(KeysOf(entry), "local_path")
          \/ Trim(KeysOf(entry).local_path.s) = <<>>
  THEN Fail(<<"Source ">> \o NumberToString(sourceNo) \o <<", file ">>
            \o NumberToString(fileNo)
            \o <<": 'local_path' is required and must be a non-empty string">>)
  ELSE IF Given(KeysOf(entry), "source_path") /\ ~IsString(KeysOf(entry), "source_path")
  THEN Fail(<<"Source ">> \o NumberToString(sourceNo) \o <<", file ">>
            \o NumberToString(fileNo)
            \o <<": 'source_path' must be a string if provided">>)
  ELSE Ok(FileMapping(KeysOf(entry)))

\* the loop of validateDefaultFiles from position n on
RECURSIVE ValidateDefaultFilesFrom(_, _, _, _)
ValidateDefaultFilesFrom(items, sourceNo, n, validated) ==
  IF n > Len(items) THEN Ok(validated)
  ELSE IF items[n].t # "string" \/ Trim(items[n].s) = <<>>
  THEN Fail(<<"Source ">> \o NumberToString(sourceNo) \o <<", default_files[">>
            \o NumberToString(n - 1) \o <<"]: must be a non-empty string">>)
  ELSE ValidateDefaultFilesFrom(items, sourceNo, n + 1,
                                Append(validated, Trim(items[n].s)))

\* validateDefaultFiles
ValidateDefaultFiles(files, sourceNo) ==
  IF files.t # "array"
  THEN Fail(<<"Source ">> \o NumberToString(sourceNo)
            \o <<": 'default_files' must be an array">>)
  ELSE ValidateDefaultFilesFrom(files.items, sourceNo, 1, <<>>)

\* obj.file_pairs.map(validateFileMapping) from position n on
RECURSIVE ValidateFilePairsFrom(_, _, _, _)
ValidateFilePairsFrom(items, sourceNo, n, validated) ==
  IF n > Len(items) THEN Ok(validated)
  ELSE IF ~ValidateFileMapping(items[n], sourceNo, n).ok
  THEN ValidateFileMapping(items[n], sourceNo, n)
  ELSE ValidateFilePairsFrom(items, sourceNo, n + 1,
         Append(validated, ValidateFileMapping(items[n], sourceNo, n).data))

\* the file_pairs part of validateSourceConfig
ValidateFilePairs(pairs, sourceNo) ==
  IF pairs.t # "array"
  THEN Fail(<<"Source ">> \o NumberToString(sourceNo)
            \o <<": 'file_pairs' must be an array">>)
  ELSE ValidateFilePairsFrom(pairs.items, sourceNo, 1, <<>>)

\* the SourceConfig returned by validateSourceConfig
SourceConfigOf(o, defaultFiles, filePairs) ==
  (IF Given(o, "default_files") THEN "default_files" :> defaultFiles.data
   ELSE [n \in {} |-> <<>>])
  @@ (IF Given(o, "file_pairs") THEN "file_pairs" :> filePairs.data
      ELSE [n \in {} |-> <<>>])
  @@ [source |-> Trim(o.source.s),
      ref |-> IF IsString(o, "ref") THEN RefString(Trim(o.ref.s)) ELSE Undefined,
      source_token |-> IF IsString(o, "source-token") THEN o["source-token"].s
                       ELSE Undefined]

\* validateSourceConfig from the default_files check on
ValidateSourceFiles(o, sourceNo, defaultFiles, filePairs) ==
  IF ~defaultFiles.ok THEN defaultFiles
  ELSE IF ~filePairs.ok THEN filePairs
  ELSE IF Len(defaultFiles.data) = 0 /\ Len(filePairs.data) = 0
  THEN Fail(<<"Source ">> \o NumberToString(sourceNo)
            \o <<": at least one of 'default_files' or 'file_pairs' is required">>)
  ELSE Ok(SourceConfigOf(o, defaultFiles, filePairs))

\* validateSourceConfig for an object with keys o
ValidateSourceKeys(o, sourceNo) ==
  IF ~IsString(o, "source") \/ Trim(o.source.s) = <<>>
  THEN Fail(<<"Source ">> \o NumberToString(sourceNo)
            \o <<": 'source' is required and must be a non-empty string">>)
  ELSE IF Len(Split(o.source.s, "/")) # 2
          \/ Split(o.source.s, "/")[1] = <<>> \/ Split(o.source.s, "/")[2] = <<>>
  THEN Fail(<<"Source ">> \o NumberToString(sourceNo)
            \o <<": 'source' must be in 'owner/repo' format, got '">>
            \o o.source.s \o <<"'">>)
  ELSE IF Given(o, "ref") /\ ~IsString(o, "ref")
  THEN Fail(<<"Source ">> \o NumberToString(sourceNo)
            \o <<": 'ref' must be a string if provided">>)
  ELSE IF Given(o, "source-token") /\ ~IsString(o, "source-token")
  THEN Fail(<<"Source ">> \o NumberToString(sourceNo)
            \o <<": 'source-token' must be a string if provided">>)
  ELSE ValidateSourceFiles(o, sourceNo,
         IF Given(o, "default_files")
         THEN ValidateDefaultFiles(o.default_files, sourceNo) ELSE Ok(<<>>),
         IF Given(o, "file_pairs")
         THEN ValidateFilePairs(o.file_pairs, sourceNo) ELSE Ok(<<>>))

\* validateSourceConfig, with a 1-based position
ValidateSourceConfig(entry, sourceNo) ==
  IF TypeOf(entry) # "object" \/ entry.t = "null"
  THEN Fail(<<"Source ">> \o NumberToString(sourceNo)
            \o <<": Expected an object, got ", TypeOf(entry)>>)
  ELSE ValidateSourceKeys(KeysOf(entry), sourceNo)

\* parsed.map(validateSourceConfig) from position n on
RECURSIVE ValidateSourcesFrom(_, _, _)
ValidateSourcesFrom(items, n, validated) ==
  IF n > Len(items) THEN Ok(validated)
  ELSE IF ~ValidateSourceConfig(items[n], n).ok
  THEN ValidateSourceConfig(items[n], n)
  ELSE ValidateSourcesFrom(items, n + 1,
         Append(validated, ValidateSourceConfig(items[n], n).data))

\* parseSourcesInput; input.kind is "blank" for text that trims to nothing,
\* "invalid" for text the YAML parser rejects, "value" for parsed text
ParseSourcesInput(input) ==
  IF input.kind = "blank"
  THEN Fail(<<"'sources' input is required and cannot be empty">>)
  ELSE IF input.kind = "invalid"
  THEN Fail(<<"Failed to parse 'sources' YAML: ", "YAMLParseError">>)
  ELSE IF input.value.t # "array"
  THEN Fail(<<"'sources' must be a YAML array, got ", TypeOf(input.value)>>)
  ELSE IF Len(input.value.items) = 0
  THEN Fail(<<"'sources' array cannot be empty">>)
  ELSE ValidateSourcesFrom(input.value.items, 1, <<>>)

\* what getInputs returns or throws; configError tells a ConfigError from
\* the Error core.getInput throws for a required input that is not supplied
InputsOutcome(ok, configError, message, data) ==
  [ok |-> ok, configError |-> configError, message |-> message, data |-> data]

\* getInputs
GetInputsFrom(input, token) ==
  IF input.kind = "missing"
  THEN InputsOutcome(FALSE, FALSE, <<"Input required and not supplied: sources">>, <<>>)
  ELSE IF ~ParseSourcesInput(input).ok
  THEN InputsOutcome(FALSE, TRUE, ParseSourcesInput(input).message, <<>>)
  ELSE IF token = ""
  THEN InputsOutcome(FALSE, FALSE,
                     <<"Input required and not supplied: github-token">>, <<>>)
  ELSE InputsOutcome(TRUE, FALSE, <<>>, ParseSourcesInput(input).data)

(***************************************************************************)
(* sync.ts: local file helpers                                             *)
(***************************************************************************)
\* a file's mode says which operations on it raise EACCES
FileModes == {"ok", "noaccess", "noread", "nowrite"}

IoError(op, filePath) == <<"EACCES: permission denied, ", op, " '">> \o filePath \o <<"'">>

\* fileExists: any rejection of fs.access gives false
FileExists(files, filePath) ==
  files[filePath].content # Null /\ files[filePath].mode # "noaccess"

\* readFile: ENOENT gives null, any other error is rethrown
ReadFile(files, filePath) ==
  IF files[filePath].mode \in {"noaccess", "noread"}
  THEN Fail(IoError("open", filePath))
  ELSE Ok(files[filePath].content)

WriteFileElsewhere(files, filePath, content) ==
  IF files[filePath].mode \in {"noaccess", "nowrite"}
  THEN Fail(IoError("open", filePath))
  ELSE Ok([files EXCEPT ![PB].content = content])

\* writeFile: mkdir -p of the directory, then fs.writeFile
WriteFile(files, filePath, content) ==
  IF files[filePath].mode \in {"noaccess", "nowrite"}
  THEN Fail(IoError("open", filePath))
  ELSE Ok([files EXCEPT ![filePath].content = content])

(***************************************************************************)
(* sync.ts: syncFile, piece by piece                                       *)
(***************************************************************************)
EffectiveTokenFallbackOnly(config, fallbackToken) == fallbackToken

\* const token = sourceToken ?? fallbackToken
EffectiveToken(config, fallbackToken) ==
  IF config.sourceToken # Undefined THEN config.sourceToken ELSE fallbackToken

SkipMissingNever(fileIsThere, create) == FALSE

\* if (!exists && !createMissing)
SkipMissing(fileIsThere, create) == ~fileIsThere /\ ~create

SkippedMissingResult(config) ==
  [config |-> config, status |-> "skipped",
   error |-> <<"Project file does not exist and create-missing is disabled">>]

NoChangesNever(existing, newContent) == FALSE

\* if (existingContent !== null && existingContent === newContent)
NoChanges(existing, newContent) ==
  existing # Null /\ existing = newContent

SkippedSameResult(config, fetched) ==
  [config |-> config, status |-> "skipped", resolvedRef |-> fetched.resolvedRef]

WrittenResultSwapped(config, fetched, existing) ==
  [config |-> config, status |-> IF existing = Null THEN "updated" ELSE "created",
   resolvedRef |-> fetched.resolvedRef, isNew |-> existing # Null]

\* the result returned after writeFile
WrittenResult(config, fetched, existing) ==
  LET isNew == existing = Null
  IN [config |-> config, status |-> IF isNew THEN "created" ELSE "updated",
      resolvedRef |-> fetched.resolvedRef, isNew |-> isNew]

FailedResultString(config, message) ==
  [config |-> config, status |-> "failed", error |-> <<"Error: ">> \o message]

\* the catch block of syncFile
FailedResult(config, message) ==
  [config |-> config, status |-> "failed", error |-> message]

\* what one call of syncFile leaves behind
SyncOutcome(result, files, cache) ==
  [result |-> result, files |-> files, cache |-> cache]

\* syncFile: writeFile answered `w`
SyncAfterWrite(config, fetched, existing, files, w) ==
  IF ~w.ok THEN SyncOutcome(FailedResult(config, w.message), files, fetched.cache)
  ELSE SyncOutcome(WrittenResult(config, fetched, existing), w.data, fetched.cache)

\* syncFile: readFile answered `r` (or was not called)
SyncAfterRead(config, fetched, files, r) ==
  IF ~r.ok THEN SyncOutcome(FailedResult(config, r.message), files, fetched.cache)
  ELSE IF NoChanges(r.data, fetched.content)
  THEN SyncOutcome(SkippedSameResult(config, fetched), files, fetched.cache)
  ELSE SyncAfterWrite(config, fetched, r.data, files,
                      WriteFile(files, config.local_path, fetched.content))

\* syncFile: gitSource.fetch answered `fetched`
SyncAfterFetch(config, fileIsThere, files, fetched) ==
  IF ~fetched.ok
  THEN SyncOutcome(FailedResult(config, fetched.message), files, fetched.cache)
  ELSE SyncAfterRead(config, fetched, files,
                     IF fileIsThere THEN ReadFile(files, config.local_path)
                     ELSE Ok(Null))

\* syncFile: createGitHubSource answered `src`
SyncFromSource(config, token, fileIsThere, files, cache, src) ==
  IF ~src.ok THEN SyncOutcome(FailedResult(config, src.message), files, cache)
  ELSE SyncAfterFetch(config, fileIsThere, files,
                      GitHubSourceFetch(src.data, token, cache))

\* syncFile
SyncFile(config, fallbackToken, create, files, cache) ==
  IF SkipMissing(FileExists(files, config.local_path), create)
  THEN SyncOutcome(SkippedMissingResult(config), files, cache)
  ELSE SyncFromSource(config, EffectiveToken(config, fallbackToken),
                      FileExists(files, config.local_path), files, cache,
                      CreateGitHubSource(config.source, config.source_path,
                                         config.ref))

(***************************************************************************)
(* sync.ts: syncFiles                                                      *)
(***************************************************************************)
StopsLoopNever(failFast, result) == FALSE

StopsLoopInverted(failFast, result) == ~failFast /\ result.status = "failed"

\* if (failOnError && result.status === 'failed') break
StopsLoop(failFast, result) == failFast /\ result.status = "failed"

BuildSummaryNoGuard(res) ==
  [updated |-> SelectSeqOf(res, "updated"), created |-> SelectSeqOf(res, "created"),
   skipped |-> SelectSeqOf(res, "skipped"), failed |-> SelectSeqOf(res, "failed"),
   total |-> Len(res),
   hasChanges |-> Len(SelectSeqOf(res, "updated")) > 0
                  \/ Len(SelectSeqOf(res, "created")) > 0,
   allFailed |-> Len(SelectSeqOf(res, "failed")) = Len(res)]

BuildSummaryAnyFailed(res) ==
  [updated |-> SelectSeqOf(res, "updated"), created |-> SelectSeqOf(res, "created"),
   skipped |-> SelectSeqOf(res, "skipped"), failed |-> SelectSeqOf(res, "failed"),
   total |-> Len(res),
   hasChanges |-> Len(SelectSeqOf(res, "updated")) > 0
                  \/ Len(SelectSeqOf(res, "created")) > 0,
   allFailed |-> Len(SelectSeqOf(res, "failed")) > 0]

\* the categorisation at the end of syncFiles
BuildSummary(res) ==
  LET updated == SelectSeqOf(res, "updated")
      created == SelectSeqOf(res, "created")
      skipped == SelectSeqOf(res, "skipped")
      failed == SelectSeqOf(res, "failed")
  IN [updated |-> updated, created |-> created, skipped |-> skipped,
      failed |-> failed, total |-> Len(res),
      hasChanges |-> Len(updated) > 0 \/ Len(created) > 0,
      allFailed |-> Len(failed) = Len(res) /\ Len(res) > 0]

\* generateStepSummary: the verdict line
Verdict(sum) ==
  IF sum.hasChanges THEN "Changes detected"
  ELSE IF sum.allFailed THEN "All files failed"
  ELSE "No changes detected"

NoSummary == [total |-> -1]
NoInput == [kind |-> "none"]
NoOutputs == [n \in {} |-> <<>>]
NoFailure == <<>>
NoFetch == [content |-> "", resolvedRef |-> ""]
EmptyCache == [c \in {} |-> ""]

\* history bookkeeping: who made a call, and how many results existed then
Tag(cs, phase, idx) ==
  [n \in 1..Len(cs) |->
     [run |-> run, phase |-> phase, idx |-> idx, done |-> Len(results),
      op |-> cs[n].op, token |-> cs[n].token, arg |-> cs[n].arg, ok |-> cs[n].ok]]

LocalCall(op, filePath, ok) == <<[op |-> op, token |-> "", arg |-> filePath, ok |-> ok]>>
Thrown(message) == <<[op |-> "throw", token |-> "", arg |-> message, ok |-> FALSE]>>

Expansion(configs, cache, log) ==
  [configs |-> configs, cache |-> cache, calls |-> log]

ExpandedConfigKeepsLocal(config, filePath) ==
  [local_path |-> config.local_path, source_path |-> filePath, source |-> config.source,
   ref |-> config.ref, sourceToken |-> config.sourceToken,
   expandedFrom |-> config.source_path]

\* the config pushed for one matching file
ExpandedConfig(config, filePath) ==
  [local_path |-> filePath, source_path |-> filePath, source |-> config.source,
   ref |-> config.ref, sourceToken |-> config.sourceToken,
   expandedFrom |-> config.source_path]

\* expandGlobPatterns: listFilesMatchingGlob gave `l` (or threw)
ExpandFromList(config, l) ==
  IF ~l.ok THEN Expansion(<<config>>, l.cache, l.calls \o Thrown(l.message))
  ELSE IF Len(l.files) = 0 THEN Expansion(<<config>>, l.cache, l.calls)
  ELSE Expansion([n \in 1..Len(l.files) |-> ExpandedConfig(config, l.files[n])],
                 l.cache, l.calls)

ExpandOneNoListing(config, fallbackToken, cache) == Expansion(<<config>>, cache, <<>>)

\* the body of the `for (const config of configs)` loop of expandGlobPatterns
ExpandOne(config, fallbackToken, cache) ==
  IF ~IsGlobPattern(config.source_path)
  THEN Expansion(<<config>>, cache, <<>>)
  ELSE ExpandFromList(config,
         ListFilesMatchingGlob(Nth(Split(config.source, "/"), 1),
                               Nth(Split(config.source, "/"), 2),
                               config.source_path, config.ref,
                               EffectiveToken(config, fallbackToken), cache))

(***************************************************************************)
(* Inputs                                                                  *)
(***************************************************************************)
Src(source, ref, token) == [source |-> source, ref |-> ref, source_token |-> token]
WithDefault(s, files) == ("default_files" :> files) @@ s
WithPairs(s, pairs) == ("file_pairs" :> pairs) @@ s

SourceChoices ==
  { WithDefault(Src(RepoR, Undefined, Undefined), <<PG>>),   \* pattern, two matches
    WithDefault(Src(RepoR, Undefined, Undefined), <<PA>>),   \* plain file
    WithDefault(Src(RepoR, Undefined, TX), <<PA>>),          \* rejected credential
    WithDefault(Src(RepoR, Undefined, TX), <<PG>>),          \* pattern, listing rejected
    WithDefault(Src(RepoS, Undefined, Undefined), <<PG>>),   \* pattern, no match
    WithDefault(Src(RepoBad, Undefined, Undefined), <<PA>>), \* malformed identifier
    WithPairs(Src(RepoR, Undefined, T1), <<[local_path |-> PB, source_path |-> PA]>>),
    WithPairs(Src(RepoR, Undefined, Undefined), <<[local_path |-> PB, source_path |-> PG]>>),
    \* a tag: other content for a, no b; both kinds of entry in one source
    WithPairs(WithDefault(Src(RepoR, "v1", Undefined), <<PA>>), <<[local_path |-> PB]>>) }

\* the sources used when the process runs syncFiles more than once
RerunChoices ==
  { WithDefault(Src(RepoR, Undefined, Undefined), <<PG>>),
    WithDefault(Src(RepoR, Undefined, Undefined), <<PA>>),
    WithDefault(Src(RepoR, Undefined, TX), <<PA>>),
    WithPairs(WithDefault(Src(RepoR, "v1", Undefined), <<PA>>), <<[local_path |-> PB]>>) }

SourceLists(choices) == UNION {[1..n -> choices] : n \in 0..MaxSources}

File(content, mode) == [content |-> content, mode |-> mode]

\* working trees without permission problems
HealthyTrees ==
  {[p \in LocalPaths |-> IF p = PA THEN File(a, "ok")
                         ELSE IF p = PB THEN File(b, "ok") ELSE File(Null, "ok")] :
     a \in {Null, "A", "B"}, b \in {Null, "B"}}

\* working trees where one path raises EACCES on some operation
FaultyTrees ==
  {[t EXCEPT ![p].mode = m] : t \in HealthyTrees, p \in {PA, PB},
                              m \in FileModes \ {"ok"}}

(***************************************************************************)
(* main.ts                                                                 *)
(***************************************************************************)
\* buildOutputs
BuildOutputs(sum) ==
  [hasChanges |-> sum.hasChanges,
   updatedCount |-> Len(sum.updated) + Len(sum.created),
   failedCount |-> Len(sum.failed),
   skippedCount |-> Len(sum.skipped),
   summary |-> sum]

\* Boolean.prototype.toString
BooleanToString(b) == IF b THEN <<"t", "r", "u", "e">> ELSE <<"f", "a", "l", "s", "e">>

\* JSON.stringify of a config: keys whose value is undefined are left out
JsonConfig(config) ==
  [f \in DOMAIN config \ {g \in {"ref", "sourceToken"} : config[g] = Undefined}
     |-> config[f]]

JsonResult(result) == [result EXCEPT !.config = JsonConfig(result.config)]

JsonResults(list) == [n \in 1..Len(list) |-> JsonResult(list[n])]

\* JSON.stringify(outputs.summary)
JsonStringify(sum) ==
  [json |-> [sum EXCEPT !.updated = JsonResults(sum.updated),
                        !.created = JsonResults(sum.created),
                        !.skipped = JsonResults(sum.skipped),
                        !.failed = JsonResults(sum.failed)]]

\* setOutputs: the name/value pairs handed to core.setOutput
SetOutputs(o) ==
  ("has-changes" :> BooleanToString(o.hasChanges))
  @@ ("updated-count" :> NumberToString(o.updatedCount))
  @@ ("failed-count" :> NumberToString(o.failedCount))
  @@ ("skipped-count" :> NumberToString(o.skippedCount))
  @@ ("summary" :> JsonStringify(o.summary))

\* the catch block of run
FailureMessage(configError, message) ==
  IF configError THEN <<"Configuration error: ">> \o message
  ELSE <<"Action failed: ">> \o message

\* if (inputs.failOnError && summary.failed.length > 0) core.setFailed(...)
FailedToSync(failFast, sum) ==
  IF failFast /\ Len(sum.failed) > 0
  THEN NumberToString(Len(sum.failed)) \o <<" file(s) failed to sync">>
  ELSE NoFailure

(***************************************************************************)
(* Inputs of the action                                                    *)
(***************************************************************************)
Entry(source, rest) == Obj(("source" :> Str(source)) @@ rest)
Files(list) == Arr([n \in 1..Len(list) |-> Str(list[n])])
Pair(localPath, sourcePath) ==
  Obj([local_path |-> Str(localPath), source_path |-> Str(sourcePath)])
PairSame(localPath) == Obj([local_path |-> Str(localPath)])

\* entries of the `sources` array
MainEntries ==
  { \* two identity files and two pairs
    Entry(RepoR, [default_files |-> Files(<<PA, PB>>),
                  file_pairs |-> Arr(<<Pair(PB, PA), PairSame(PA)>>)]),
    \* blanks around every text; a ref and a credential of its own
    Entry(<<" ">> \o RepoR,
          ("source-token" :> Str(T1))
          @@ [ref |-> Str(<<" ", "v1">>),
              file_pairs |-> Arr(<<Pair(<<" ", "b", " ">>, <<"a", " ">>)>>)]),
    \* a blank where the repository name should be
    Entry(<<"o", "/", " ">>, [default_files |-> Files(<<PA>>)]),
    \* rejected by the validators
    Entry(RepoBad, [default_files |-> Files(<<PA>>)]),
    Obj([default_files |-> Files(<<PA>>)]),
    Num,
    Entry(RepoR, [default_files |-> Str(PA)]),
    Entry(RepoR, [default_files |-> Files(<<>>)]),
    Entry(RepoR, [file_pairs |-> Arr(<<Num>>)]),
    Entry(RepoR, [ref |-> Num, default_files |-> Files(<<PA>>)]),
    Entry(RepoR, [default_files |-> Files(<<<<" ">>>>)]) }

\* what the `sources` input can be
MainInputs ==
  {[kind |-> "missing"], [kind |-> "blank"], [kind |-> "invalid"],
   [kind |-> "value", value |-> Str(RepoR)]}
  \cup {[kind |-> "value", value |-> Arr(items)] :
          items \in UNION {[1..n -> MainEntries] : n \in 0..MaxSources}}

\* sources whose ref is absent (two repositories, one rejected credential)
\* and one source with a ref
CacheChoices ==
  { WithDefault(Src(RepoR, Undefined, Undefined), <<PA>>),
    WithDefault(Src(RepoR, Undefined, Undefined), <<PG>>),
    WithDefault(Src(RepoR, Undefined, TX), <<PA>>),
    WithDefault(Src(RepoS, Undefined, Undefined), <<PG>>),
    WithDefault(Src(RepoR, "v1", Undefined), <<PA>>) }

\* one plain file per source: repositories that exist, that do not, and
\* malformed identifiers; files, a directory, an empty file, a missing path
FetchChoices ==
  {WithDefault(Src(repo, ref, token), <<path>>) :
     repo \in {RepoR, RepoX, RepoBad, RepoLong, RepoNoOwner},
     ref \in {Undefined, "main", "v2", "zz"},
     token \in {Undefined, TX},
     path \in {PA, PD, PE, PZ}}

FetchTrees ==
  {[p \in {PA, PD, PE, PZ} |-> IF p = PA THEN File(a, "ok") ELSE File(Null, "ok")] :
     a \in {Null, "B"}}

\* sources of a run that shares its working tree with another process
RaceChoices ==
  { WithDefault(Src(RepoR, Undefined, Undefined), <<PA>>),
    WithDefault(Src(RepoR, Undefined, Undefined), <<PG>>),
    WithPairs(Src(RepoR, "v1", Undefined), <<[local_path |-> PB, source_path |-> PA]>>) }

\* patterns and refs for listFilesMatchingGlob
GlobPatterns == {<<"*">>, <<"?">>, <<"d", "/", "*">>, <<"d", "*">>}
GlobRefs == {Undefined, "main", "v1", "c1", "zz"}

GlobChoices ==
  {WithDefault(Src(repo, ref, token), <<pattern>>) :
     repo \in {RepoR, RepoS}, ref \in GlobRefs, token \in {Undefined, TX},
     pattern \in GlobPatterns}

\* an empty working tree with room for every path a listing can give
GlobTrees ==
  {[p \in GlobPatterns \cup {PA, PB, PDA} |-> File(Null, "ok")]}

MainTrees ==
  {[p \in LocalPaths |-> IF p = PA THEN File(a, "ok") ELSE File(Null, "ok")] :
     a \in {Null, "A"}}

(***************************************************************************)
(* State machine                                                           *)
(***************************************************************************)
\* everything but the inputs, before run() has done anything
InitState ==
  /\ defaultBranchCache = EmptyCache
  /\ normalizedConfigs = <<>>
  /\ expandedConfigs = <<>>
  /\ origin = <<>>
  /\ k = 1
  /\ i = 1
  /\ exists = FALSE
  /\ fetchResult = NoFetch
  /\ existingContent = Null
  /\ results = <<>>
  /\ summary = NoSummary
  /\ calls = <<>>
  /\ fs0 = fs
  /\ fsFirst = fs
  /\ run = 1
  /\ prevSummary = NoSummary
  /\ outputs = NoOutputs
  /\ failure = NoFailure

\* syncFiles is called with validated inputs
InitWith(choices) ==
  /\ \/ sources \in SourceLists(choices) /\ fs \in HealthyTrees
     \/ sources \in {<<c>> : c \in choices} /\ fs \in FaultyTrees
  /\ githubToken = T0
  /\ createMissing \in BOOLEAN
  /\ failOnError \in BOOLEAN
  /\ pc = "start"
  /\ sourcesInput = NoInput
  /\ summaryWritable = TRUE
  /\ InitState

\* syncFiles is called with one source that lists one pattern
InitGlob ==
  /\ sources \in {<<c>> : c \in GlobChoices}
  /\ fs \in GlobTrees
  /\ githubToken = T0
  /\ createMissing \in BOOLEAN
  /\ failOnError \in BOOLEAN
  /\ pc = "start"
  /\ sourcesInput = NoInput
  /\ summaryWritable = TRUE
  /\ InitState

\* syncFiles is called with one source that names one file
InitFetch ==
  /\ sources \in {<<c>> : c \in FetchChoices}
  /\ fs \in FetchTrees
  /\ githubToken = T0
  /\ createMissing \in BOOLEAN
  /\ failOnError \in BOOLEAN
  /\ pc = "start"
  /\ sourcesInput = NoInput
  /\ summaryWritable = TRUE
  /\ InitState

\* syncFiles runs while another process works on the same tree
InitRace ==
  /\ sources \in SourceLists(RaceChoices)
  /\ fs \in HealthyTrees
  /\ githubToken = T0
  /\ createMissing \in BOOLEAN
  /\ failOnError \in BOOLEAN
  /\ pc = "start"
  /\ sourcesInput = NoInput
  /\ summaryWritable = TRUE
  /\ InitState

\* a process that runs syncFiles over two sources, more than once
InitCache ==
  /\ sources \in [1..2 -> CacheChoices]
  /\ fs \in {t \in HealthyTrees : t[PA].content = Null}
  /\ githubToken = T0
  /\ createMissing = TRUE
  /\ failOnError = FALSE
  /\ pc = "start"
  /\ sourcesInput = NoInput
  /\ summaryWritable = TRUE
  /\ InitState

\* the action starts: run() of main.ts is about to call getInputs
InitMain ==
  /\ sourcesInput \in MainInputs
  /\ sources = <<>>
  /\ githubToken \in {T0, ""}
  /\ createMissing \in BOOLEAN
  /\ failOnError \in BOOLEAN
  /\ summaryWritable \in BOOLEAN
  /\ fs \in MainTrees
  /\ pc = "main"
  /\ InitState

inputs == <<sources, githubToken, createMissing, failOnError, fsFirst>>
mainVars == <<sourcesInput, summaryWritable, outputs, failure>>
locals == <<exists, fetchResult, existingContent>>

\* syncFiles up to the call of expandGlobPatterns
StartRun ==
  /\ pc = "start"
  /\ normalizedConfigs' = NormalizeSources(sources)
  /\ expandedConfigs' = <<>>
  /\ origin' = <<>>
  /\ k' = 1
  /\ i' = 1
  /\ results' = <<>>
  /\ summary' = NoSummary
  /\ fs0' = fs
  /\ pc' = "expand"
  /\ UNCHANGED <<inputs, mainVars, locals, fs, defaultBranchCache, calls, run, prevSummary>>

\* one iteration of the loop of expandGlobPatterns
ExpandStep ==
  /\ pc = "expand"
  /\ k <= Len(normalizedConfigs)
  /\ LET e == ExpandOne(normalizedConfigs[k], githubToken, defaultBranchCache)
     IN /\ expandedConfigs' = expandedConfigs \o e.configs
        /\ origin' = origin \o [n \in 1..Len(e.configs) |-> k]
        /\ defaultBranchCache' = e.cache
        /\ calls' = calls \o Tag(e.calls, "expand", k)
  /\ k' = k + 1
  /\ UNCHANGED <<inputs, mainVars, locals, fs, pc, normalizedConfigs, i, results, summary,
                 fs0, run, prevSummary>>

\* expandGlobPatterns returns; syncFiles enters its loop
ExpandDone ==
  /\ pc = "expand"
  /\ k > Len(normalizedConfigs)
  /\ pc' = IF expandedConfigs = <<>> THEN "summarize" ELSE "exists"
  /\ i' = 1
  /\ UNCHANGED <<inputs, mainVars, locals, fs, defaultBranchCache, normalizedConfigs,
                 expandedConfigs, origin, k, results, summary, calls, fs0, run,
                 prevSummary>>

\* syncFile returns `result`: results.push, the failOnError check, next iteration
Produce(result) ==
  /\ results' = Append(results, result)
  /\ IF StopsLoop(failOnError, result) \/ i = Len(expandedConfigs)
     THEN pc' = "summarize" /\ i' = i
     ELSE pc' = "exists" /\ i' = i + 1
  /\ exists' = FALSE
  /\ fetchResult' = NoFetch
  /\ existingContent' = Null

\* syncFile: the existence check and the create-missing short-circuit
CheckExists ==
  /\ pc = "exists"
  /\ LET config == expandedConfigs[i]
         e == FileExists(fs, config.local_path)
     IN /\ calls' = calls \o Tag(LocalCall("fs.access", config.local_path, e), "sync", i)
        /\ IF SkipMissing(e, createMissing)
           THEN Produce(SkippedMissingResult(config))
           ELSE /\ exists' = e
                /\ pc' = "fetch"
                /\ UNCHANGED <<i, results, fetchResult, existingContent>>
  /\ UNCHANGED <<inputs, mainVars, fs, defaultBranchCache, normalizedConfigs, expandedConfigs,
                 origin, k, summary, fs0, run, prevSummary>>

\* syncFile: createGitHubSource and gitSource.fetch(token)
Fetch ==
  /\ pc = "fetch"
  /\ LET config == expandedConfigs[i]
         token == EffectiveToken(config, githubToken)
         src == CreateGitHubSource(config.source, config.source_path, config.ref)
     IN IF ~src.ok
        THEN /\ calls' = calls \o Tag(Thrown(src.message), "sync", i)
             /\ Produce(FailedResult(config, src.message))
             /\ UNCHANGED defaultBranchCache
        ELSE LET f == GitHubSourceFetch(src.data, token, defaultBranchCache)
             IN /\ defaultBranchCache' = f.cache
                /\ IF f.ok
                   THEN /\ calls' = calls \o Tag(f.calls, "sync", i)
                        /\ fetchResult' = [content |-> f.content,
                                           resolvedRef |-> f.resolvedRef]
                        /\ pc' = "read"
                        /\ UNCHANGED <<i, results, exists, existingContent>>
                   ELSE /\ calls' = calls \o Tag(f.calls \o Thrown(f.message), "sync", i)
                        /\ Produce(FailedResult(config, f.message))
  /\ UNCHANGED <<inputs, mainVars, fs, normalizedConfigs, expandedConfigs, origin, k, summary,
                 fs0, run, prevSummary>>

\* syncFile: read the project file and compare
ReadCompare ==
  /\ pc = "read"
  /\ LET config == expandedConfigs[i]
         r == IF exists THEN ReadFile(fs, config.local_path) ELSE Ok(Null)
         log == IF exists THEN LocalCall("fs.readFile", config.local_path, r.ok)
                ELSE <<>>
     IN IF ~r.ok
        THEN /\ calls' = calls \o Tag(log \o Thrown(r.message), "sync", i)
             /\ Produce(FailedResult(config, r.message))
        ELSE /\ calls' = calls \o Tag(log, "sync", i)
             /\ IF NoChanges(r.data, fetchResult.content)
                THEN Produce(SkippedSameResult(config, fetchResult))
                ELSE /\ existingContent' = r.data
                     /\ pc' = "write"
                     /\ UNCHANGED <<i, results, exists, fetchResult>>
  /\ UNCHANGED <<inputs, mainVars, fs, defaultBranchCache, normalizedConfigs, expandedConfigs,
                 origin, k, summary, fs0, run, prevSummary>>

\* syncFile: write the new content and classify
Write ==
  /\ pc = "write"
  /\ LET config == expandedConfigs[i]
         w == WriteFile(fs, config.local_path, fetchResult.content)
         log == LocalCall("fs.writeFile", config.local_path, w.ok)
     IN IF ~w.ok
        THEN /\ calls' = calls \o Tag(log \o Thrown(w.message), "sync", i)
             /\ Produce(FailedResult(config, w.message))
             /\ UNCHANGED fs
        ELSE /\ calls' = calls \o Tag(log, "sync", i)
             /\ fs' = w.data
             /\ Produce(WrittenResult(config, fetchResult, existingContent))
  /\ UNCHANGED <<inputs, mainVars, defaultBranchCache, normalizedConfigs, expandedConfigs,
                 origin, k, summary, fs0, run, prevSummary>>

\* syncFiles after the loop: categorise and return the summary
Summarize ==
  /\ pc = "summarize"
  /\ summary' = BuildSummary(results)
  /\ pc' = "done"
  /\ UNCHANGED <<inputs, mainVars, locals, fs, defaultBranchCache, normalizedConfigs,
                 expandedConfigs, origin, k, i, results, calls, fs0, run,
                 prevSummary>>

\* the same process calls syncFiles again with the same inputs
Rerun ==
  /\ pc = "done"
  /\ run < MaxRuns
  /\ run' = run + 1
  /\ prevSummary' = summary
  /\ normalizedConfigs' = NormalizeSources(sources)
  /\ expandedConfigs' = <<>>
  /\ origin' = <<>>
  /\ k' = 1
  /\ i' = 1
  /\ results' = <<>>
  /\ summary' = NoSummary
  /\ fs0' = fs
  /\ pc' = "expand"
  /\ UNCHANGED <<inputs, mainVars, locals, fs, defaultBranchCache, calls>>

\* clearBranchCache, called between two steps of the process
ClearBranchCache ==
  /\ pc \in {"start", "expand", "exists", "fetch", "read", "write", "summarize", "done"}
  /\ Cardinality({j \in 1..Len(calls) : calls[j].op = "clearBranchCache"}) < MaxClears
  /\ defaultBranchCache' = EmptyCache
  /\ calls' = Append(calls, [run |-> run, phase |-> "clear", idx |-> 0,
                             done |-> Len(results), op |-> "clearBranchCache",
                             token |-> "", arg |-> <<>>, ok |-> TRUE])
  /\ UNCHANGED <<inputs, mainVars, locals, fs, pc, normalizedConfigs, expandedConfigs,
                 origin, k, i, results, summary, fs0, run, prevSummary>>

\* another process deletes a local file while the run is between two awaits
DeleteFile ==
  /\ pc \in {"expand", "exists", "fetch", "read", "write", "summarize"}
  /\ \E p \in DOMAIN fs :
       /\ fs[p].content # Null
       /\ fs' = [fs EXCEPT ![p].content = Null]
  /\ UNCHANGED <<inputs, mainVars, locals, pc, defaultBranchCache, normalizedConfigs,
                 expandedConfigs, origin, k, i, results, summary, calls, fs0, run,
                 prevSummary>>

\* run() of main.ts: getInputs, and the catch block when it throws
GetInputs ==
  /\ pc = "main"
  /\ LET r == GetInputsFrom(sourcesInput, githubToken)
     IN IF r.ok
        THEN /\ sources' = r.data
             /\ pc' = "start"
             /\ UNCHANGED failure
        ELSE /\ failure' = FailureMessage(r.configError, r.message)
             /\ pc' = "exit"
             /\ UNCHANGED sources
  /\ UNCHANGED <<githubToken, createMissing, failOnError, fsFirst, sourcesInput,
                 summaryWritable, outputs, locals, fs, defaultBranchCache,
                 normalizedConfigs, expandedConfigs, origin, k, i, results,
                 summary, calls, fs0, run, prevSummary>>

\* run() of main.ts after syncFiles has returned: the step summary, the
\* outputs, the final verdict
Finish ==
  /\ pc = "done"
  /\ IF summaryWritable
     THEN /\ outputs' = SetOutputs(BuildOutputs(summary))
          /\ failure' = FailedToSync(failOnError, summary)
     ELSE /\ failure' = FailureMessage(FALSE,
                          <<"Unable to find environment variable for file command ",
                            "GITHUB_STEP_SUMMARY">>)
          /\ UNCHANGED outputs
  /\ pc' = "exit"
  /\ UNCHANGED <<inputs, sourcesInput, summaryWritable, locals, fs,
                 defaultBranchCache, normalizedConfigs, expandedConfigs, origin,
                 k, i, results, summary, calls, fs0, run, prevSummary>>

\* one run of syncFiles in a fresh process
Init == InitWith(SourceChoices)

Next ==
  \/ StartRun
  \/ ExpandStep
  \/ ExpandDone
  \/ CheckExists
  \/ Fetch
  \/ ReadCompare
  \/ Write
  \/ Summarize

Spec == Init /\ [][Next]_vars

\* consecutive runs of syncFiles in one process (the cache and the tree persist)
InitRerun == InitWith(RerunChoices)

NextRerun ==
  \/ StartRun
  \/ ExpandStep
  \/ ExpandDone
  \/ CheckExists
  \/ Fetch
  \/ ReadCompare
  \/ Write
  \/ Summarize
  \/ Rerun

SpecRerun == InitRerun /\ [][NextRerun]_vars

\* consecutive runs in one process, with clearBranchCache called in between
NextCache ==
  \/ StartRun
  \/ ExpandStep
  \/ ExpandDone
  \/ CheckExists
  \/ Fetch
  \/ ReadCompare
  \/ Write
  \/ Summarize
  \/ Rerun
  \/ ClearBranchCache

SpecCache == InitCache /\ [][NextCache]_vars

\* one run of syncFiles over one file of every kind of repository and ref
SpecFetch == InitFetch /\ [][Next]_vars

\* one run of syncFiles interleaved with a process that deletes files
NextRace ==
  \/ StartRun
  \/ ExpandStep
  \/ ExpandDone
  \/ CheckExists
  \/ Fetch
  \/ ReadCompare
  \/ Write
  \/ Summarize
  \/ DeleteFile

SpecRace == InitRace /\ [][NextRace]_vars

\* one run of syncFiles over patterns and refs of every kind
SpecGlob == InitGlob /\ [][Next]_vars

\* one run of the action, from its inputs to its outputs
NextMain ==
  \/ GetInputs
  \/ StartRun
  \/ ExpandStep
  \/ ExpandDone
  \/ CheckExists
  \/ Fetch
  \/ ReadCompare
  \/ Write
  \/ Summarize
  \/ Finish

SpecMain == InitMain /\ [][NextMain]_vars

(***************************************************************************)
(* Properties                                                              *)
(***************************************************************************)
\* positions in `calls` of what task n of the current run did
SyncCallsOf(n) ==
  {j \in 1..Len(calls) :
     calls[j].run = run /\ calls[j].phase = "sync" /\ calls[j].idx = n}

Processed(n) == \E j \in SyncCallsOf(n) : calls[j].op = "fs.access"

\* C1: with failOnError, a failed result is the last thing the loop does: no
\* later task makes any call, and total is the position of the failed task;
\* without failOnError every expanded task is processed and counted.
C1_FailFast ==
  /\ failOnError =>
       \A n \in 1..Len(results) :
         results[n].status = "failed" =>
           /\ n = Len(results)
           /\ pc \in {"summarize", "done"}
           /\ \A m \in (n + 1)..Len(expandedConfigs) : SyncCallsOf(m) = {}
           /\ pc = "done" => summary.total = n
  /\ (pc = "done" /\ ~failOnError) =>
       /\ summary.total = Len(expandedConfigs)
       /\ \A n \in 1..Len(expandedConfigs) :
            Processed(n) /\ results[n].config = expandedConfigs[n]

C1_Witness ==
  /\ pc = "done"
  /\ failOnError
  /\ Len(expandedConfigs) = 3
  /\ summary.total = 1
  /\ results[1].status = "failed"

\* C2: every error raised inside syncFile for a task becomes that task's
\* result, failed, with the raised message as its error; the tasks after it
\* are still processed unless failOnError, and the run returns a summary.
C2_FailuresAreResults ==
  /\ \A n \in 1..Len(results) :
       LET throws == {j \in SyncCallsOf(n) : calls[j].op = "throw"}
       IN /\ Cardinality(throws) <= 1
          /\ throws # {} <=> results[n].status = "failed"
          /\ \A j \in throws : results[n].error = calls[j].arg
  /\ \A j \in 1..Len(calls) :
       (calls[j].run = run /\ calls[j].phase = "sync" /\ calls[j].op = "throw")
         => calls[j].idx <= Len(results)
  /\ (pc = "done" /\ ~failOnError) => Len(results) = Len(expandedConfigs)
  /\ pc = "done" => summary.total = Len(results)

C2_Witness ==
  /\ pc = "done"
  /\ ~failOnError
  /\ \E n \in 1..Len(results) :
       /\ results[n].status = "failed"
       /\ n < Len(results)
       /\ results[n + 1].status \in {"updated", "created"}

\* C3: a task whose existence check says "not there" while createMissing is
\* false is skipped with a reason, and makes no other call: no fetch, no
\* read, no write.
C3_SkipWithoutFetch ==
  ~createMissing =>
    \A n \in 1..Len(results) :
      (\E j \in SyncCallsOf(n) : calls[j].op = "fs.access" /\ ~calls[j].ok) =>
        /\ results[n].status = "skipped"
        /\ Has(results[n], "error")
        /\ results[n].error # <<>>
        /\ \A j \in SyncCallsOf(n) : calls[j].op = "fs.access"

C3_Witness ==
  /\ pc = "done"
  /\ ~createMissing
  /\ \E n \in 1..Len(results) :
       /\ results[n].status = "skipped"
       /\ Has(results[n], "error")
       /\ fs[results[n].config.local_path].content = Null

Statuses == {"updated", "created", "skipped", "failed"}

RemoteOps ==
  {"repos.get", "repos.getContent", "git.getRef", "git.getCommit", "git.getTree"}

\* the step in which syncFile returns for the task at position i
TaskEnds == pc \in {"exists", "fetch", "read", "write"} /\ Len(results') = Len(results) + 1

\* the same, for a task whose fetch has succeeded
FetchedTaskEnds == pc \in {"read", "write"} /\ Len(results') = Len(results) + 1

\* the steps of one task add up to syncFile
SyncFileAgrees ==
  [][TaskEnds =>
       LET o == SyncFile(expandedConfigs[i], githubToken, createMissing, fs,
                         defaultBranchCache)
       IN /\ o.result = results'[Len(results')]
          /\ o.files = fs'
          /\ o.cache = defaultBranchCache']_vars

ErrorOf(result) == IF Has(result, "error") THEN result.error ELSE <<>>

\* the classification after a successful fetch, for the task that ends in this step
Classified ==
  LET path == expandedConfigs[i].local_path
      r == results'[Len(results')]
  IN /\ (~exists /\ createMissing) =>
          /\ r.status = "created"
          /\ r.isNew
          /\ fs'[path].content = fetchResult.content
     /\ (exists /\ fs[path].content # fetchResult.content) =>
          /\ r.status = "updated"
          /\ ~r.isNew
          /\ fs'[path].content = fetchResult.content

\* neither reading nor writing the task's local file raises an error
LocalIoWorks ==
  LET path == expandedConfigs[i].local_path
  IN /\ exists => ReadFile(fs, path).ok
     /\ WriteFile(fs, path, fetchResult.content).ok

RemoteFetch(config) ==
  IF CreateGitHubSource(config.source, config.source_path, config.ref).ok
  THEN GitHubSourceFetch(
         CreateGitHubSource(config.source, config.source_path, config.ref).data,
         EffectiveToken(config, githubToken), EmptyCache)
  ELSE FetchOutcome(FALSE, "", "", <<>>, EmptyCache, <<>>)

\* in `tree` the local file of `config` is there, readable, and equal to
\* the content a fetch returns
InSync(config, tree) ==
  /\ FileExists(tree, config.local_path)
  /\ ReadFile(tree, config.local_path).ok
  /\ RemoteFetch(config).ok
  /\ tree[config.local_path].content = RemoteFetch(config).content

WritesTo(filePath) ==
  {j \in 1..Len(calls) : calls[j].op = "fs.writeFile" /\ calls[j].arg = filePath}

\* C5 as stated: after the second run, each task whose local file equalled
\* the remote content was skipped in both runs, both summaries have
\* hasChanges false, and its file was never written and is unchanged.
C5_EveryTaskInSync ==
  (pc = "done" /\ run = 2) =>
    \A n \in 1..Len(expandedConfigs) :
      InSync(expandedConfigs[n], fsFirst) =>
        /\ n <= Len(results)
        /\ results[n].status = "skipped"
        /\ \E m \in 1..Len(prevSummary.skipped) :
             prevSummary.skipped[m].config = expandedConfigs[n]
        /\ ~summary.hasChanges
        /\ ~prevSummary.hasChanges
        /\ WritesTo(expandedConfigs[n].local_path) = {}
        /\ fs[expandedConfigs[n].local_path] = fsFirst[expandedConfigs[n].local_path]

AllInSync ==
  \A n \in 1..Len(expandedConfigs) : InSync(expandedConfigs[n], fsFirst)

\* C5: when the local file of every task of the run is there, readable and
\* already equal to its remote content, each run, the first and the ones
\* after it, skips every task and reports hasChanges false; writeFile is
\* never called and the tree stays as it was.
C5_Idempotent ==
  (pc = "done" /\ AllInSync) =>
    /\ Len(results) = Len(expandedConfigs)
    /\ \A n \in 1..Len(results) : results[n].status = "skipped"
    /\ ~summary.hasChanges
    /\ run > 1 =>
         /\ prevSummary.total = Len(expandedConfigs)
         /\ Len(prevSummary.skipped) = prevSummary.total
         /\ ~prevSummary.hasChanges
    /\ \A j \in 1..Len(calls) : calls[j].op # "fs.writeFile"
    /\ fs = fsFirst

C5_Witness ==
  /\ pc = "done"
  /\ run = 2
  /\ Len(expandedConfigs) = 2
  /\ AllInSync
  /\ Len(summary.skipped) = 2
  /\ Len(prevSummary.skipped) = 2
  /\ fs = fsFirst

CountOf(status) ==
  Cardinality({n \in 1..Len(results) : results[n].status = status})

\* C6: the four lists of the summary partition the results by status, total
\* is the number of results, hasChanges says that updated or created is not
\* empty, allFailed says that there are results and all of them failed.
C6_SummaryPartition ==
  pc = "done" =>
    /\ \A st \in Statuses :
         /\ Len(summary[st]) = CountOf(st)
         /\ \A m \in 1..Len(summary[st]) :
              /\ summary[st][m].status = st
              /\ \E n \in 1..Len(results) : results[n] = summary[st][m]
    /\ \A n \in 1..Len(results) :
         /\ results[n].status \in Statuses
         /\ \E m \in 1..Len(summary[results[n].status]) :
              summary[results[n].status][m] = results[n]
    /\ summary.total = Len(results)
    /\ summary.hasChanges <=> (summary.updated # <<>> \/ summary.created # <<>>)
    /\ summary.allFailed <=>
         (summary.total > 0 /\ \A n \in 1..Len(results) : results[n].status = "failed")
    /\ expandedConfigs = <<>> => (summary.total = 0 /\ ~summary.allFailed)

C6_Witness ==
  /\ pc = "done"
  /\ summary.total = 3
  /\ Len(summary.failed) = 1
  /\ Len(summary.created) = 1
  /\ Len(summary.skipped) = 1
  /\ summary.hasChanges
  /\ ~summary.allFailed

\* C7: every call made for task n happens when exactly n - 1 results exist,
\* calls appear in the log in task order, the n-th result is the result of
\* the n-th expanded task, and the j-th result of a status is the j-th
\* element of the summary's list for that status.
C7_Sequential ==
  /\ \A j \in 1..Len(calls) :
       (calls[j].run = run /\ calls[j].phase = "sync") =>
         /\ calls[j].idx \in 1..Len(expandedConfigs)
         /\ calls[j].done = calls[j].idx - 1
         /\ \A q \in 1..j :
              (calls[q].run = run /\ calls[q].phase = "sync") =>
                calls[q].idx <= calls[j].idx
  /\ Len(results) <= Len(expandedConfigs)
  /\ \A n \in 1..Len(results) : results[n].config = expandedConfigs[n]
  /\ pc = "done" =>
       \A n \in 1..Len(results) :
         summary[results[n].status][
           Cardinality({q \in 1..n : results[q].status = results[n].status})]
           = results[n]

C7_Witness ==
  /\ pc = "done"
  /\ Len(summary.created) >= 2
  /\ summary.created[1].config # summary.created[2].config
  /\ summary.created[1].config = expandedConfigs[1]
  /\ \E j \in 1..Len(calls) :
       calls[j].phase = "sync" /\ calls[j].idx = 2 /\ calls[j].op = "fs.writeFile"

\* C8: the result of each task is the result syncFile gives for that task on
\* its own, on the tree as it was before the run and with nothing cached:
\* same status, same error, same content written.
C8_TaskIndependent ==
  [][TaskEnds =>
       LET config == expandedConfigs[i]
           alone == SyncFile(config, githubToken, createMissing, fs0, EmptyCache)
           r == results'[Len(results')]
       IN /\ r.status = alone.result.status
          /\ ErrorOf(r) = ErrorOf(alone.result)
          /\ r.status \in {"created", "updated"} =>
               fs'[config.local_path].content
                 = alone.files[config.local_path].content]_vars

\* for each entry of normalizeSources(srcs): the position of its source, and
\* whether it came from file_pairs
RECURSIVE ProvenanceOf(_, _)
ProvenanceOf(srcs, first) ==
  IF srcs = <<>> THEN <<>>
  ELSE [n \in 1..Len(NormalizeOne(Head(srcs))) |->
          [source |-> first,
           fromPairs |-> n > (IF Has(Head(srcs), "default_files")
                              THEN Len(Head(srcs).default_files) ELSE 0)]]
       \o ProvenanceOf(Tail(srcs), first + 1)

Provenance == ProvenanceOf(sources, 1)

\* the credential the configuration prescribes for normalized entry n
PrescribedToken(n) ==
  IF sources[Provenance[n].source].source_token # Undefined
  THEN sources[Provenance[n].source].source_token
  ELSE githubToken

\* C9: every remote call made while fetching for a task, and every remote
\* call made while expanding its pattern, carries the source_token of the
\* source the task came from when that source has one, and github-token
\* otherwise.
C9_Credential ==
  \A j \in 1..Len(calls) :
    (calls[j].run = run /\ calls[j].op \in RemoteOps) =>
      /\ calls[j].phase = "sync" =>
           calls[j].token = PrescribedToken(origin[calls[j].idx])
      /\ calls[j].phase = "expand" =>
           calls[j].token = PrescribedToken(calls[j].idx)

C9_Witness ==
  /\ pc = "done"
  /\ \E j \in 1..Len(calls) :
       /\ calls[j].phase = "sync" /\ calls[j].op = "repos.getContent"
       /\ calls[j].token = T1 /\ githubToken # T1
  /\ \E j \in 1..Len(calls) :
       /\ calls[j].phase = "sync" /\ calls[j].op = "repos.getContent"
       /\ calls[j].token = githubToken
  /\ \E j \in 1..Len(calls) :
       /\ calls[j].phase = "expand" /\ calls[j].op = "git.getTree"
       /\ calls[j].token = githubToken

\* C10: an entry that came from file_pairs goes through expandGlobPatterns
\* untouched: no listing call is made for it, and it yields exactly one
\* task, with the local path it was configured with.
C10_PairsNotExpanded ==
  \A n \in 1..Len(normalizedConfigs) :
    (n < k /\ Provenance[n].fromPairs) =>
      /\ Cardinality({m \in 1..Len(origin) : origin[m] = n}) = 1
      /\ \A m \in 1..Len(origin) :
           origin[m] = n =>
             expandedConfigs[m].local_path = normalizedConfigs[n].local_path
      /\ \A j \in 1..Len(calls) :
           ~(calls[j].run = run /\ calls[j].phase = "expand" /\ calls[j].idx = n)

\* the listing for normalized entry n succeeds and matches no file
ZeroMatch(n) ==
  /\ IsGlobPattern(normalizedConfigs[n].source_path)
  /\ ~Provenance[n].fromPairs
  /\ ListFilesMatchingGlob(Nth(Split(normalizedConfigs[n].source, "/"), 1),
                           Nth(Split(normalizedConfigs[n].source, "/"), 2),
                           normalizedConfigs[n].source_path,
                           normalizedConfigs[n].ref,
                           EffectiveToken(normalizedConfigs[n], githubToken),
                           EmptyCache).ok
  /\ ListFilesMatchingGlob(Nth(Split(normalizedConfigs[n].source, "/"), 1),
                           Nth(Split(normalizedConfigs[n].source, "/"), 2),
                           normalizedConfigs[n].source_path,
                           normalizedConfigs[n].ref,
                           EffectiveToken(normalizedConfigs[n], githubToken),
                           EmptyCache).files = <<>>

TasksOf(n) == {m \in 1..Len(origin) : origin[m] = n}

\* C11: a default_files pattern that matches no file is expanded without an
\* error into one task, the pattern itself, and the summary of the run holds
\* exactly one result for it: failed, with the not-found error of its fetch.
C11_ZeroMatchFails ==
  \A n \in 1..Len(normalizedConfigs) :
    (n < k /\ ZeroMatch(n)) =>
      /\ \A j \in 1..Len(calls) :
           ~(calls[j].run = run /\ calls[j].phase = "expand" /\ calls[j].idx = n
             /\ calls[j].op = "throw")
      /\ Cardinality(TasksOf(n)) = 1
      /\ \A m \in TasksOf(n) : expandedConfigs[m] = normalizedConfigs[n]
      /\ pc = "done" =>
           \A m \in TasksOf(n) :
             /\ m <= Len(results)
             /\ results[m].status = "failed"
             /\ Includes(ErrorOf(results[m]), "File not found: ")
             /\ Cardinality({q \in 1..Len(summary.failed) :
                               summary.failed[q].config = expandedConfigs[m]}) = 1

DefaultsOf(source) == IF Has(source, "default_files") THEN source.default_files ELSE <<>>

PairsOf(source) == IF Has(source, "file_pairs") THEN source.file_pairs ELSE <<>>

\* the number of entries listed by the sources before position s
RECURSIVE EntriesBefore(_)
EntriesBefore(s) ==
  IF s <= 1 THEN 0
  ELSE EntriesBefore(s - 1) + Len(DefaultsOf(sources[s - 1]))
       + Len(PairsOf(sources[s - 1]))

\* normalizeSources has run
Normalized == pc \notin {"main", "start"}

\* C12: the output of normalizeSources has one entry per listed entry; the
\* entries of a source follow those of the sources before it, its
\* default_files come first, in listed order, then its file_pairs, in
\* listed order.
C12_NormalizedOrder ==
  Normalized =>
    /\ Len(normalizedConfigs) = EntriesBefore(Len(sources) + 1)
    /\ \A s \in 1..Len(sources) :
         /\ \A d \in 1..Len(DefaultsOf(sources[s])) :
              /\ normalizedConfigs[EntriesBefore(s) + d].local_path
                   = DefaultsOf(sources[s])[d]
              /\ normalizedConfigs[EntriesBefore(s) + d].source = sources[s].source
         /\ \A p \in 1..Len(PairsOf(sources[s])) :
              /\ normalizedConfigs[EntriesBefore(s) + Len(DefaultsOf(sources[s])) + p]
                   .local_path = PairsOf(sources[s])[p].local_path
              /\ normalizedConfigs[EntriesBefore(s) + Len(DefaultsOf(sources[s])) + p]
                   .source = sources[s].source

C12_Witness ==
  /\ pc = "exit"
  /\ Len(sources) = 2
  /\ Len(DefaultsOf(sources[1])) = 2
  /\ Len(PairsOf(sources[1])) = 2
  /\ Len(PairsOf(sources[2])) = 1
  /\ Len(normalizedConfigs) = 5
  /\ normalizedConfigs[2].local_path = PB
  /\ normalizedConfigs[3].source_path = PA
  /\ normalizedConfigs[5].sourceToken = T1

\* C13: every entry of the output carries the source, ref and source-token
\* of the source it was listed under; a default_files entry has local_path =
\* source_path = the listed path; a file_pairs entry has the listed
\* local_path, and the listed source_path when there is one, else the
\* local_path.
C13_NormalizedFields ==
  Normalized =>
    \A s \in 1..Len(sources) :
      /\ \A n \in (EntriesBefore(s) + 1)..EntriesBefore(s + 1) :
           /\ n <= Len(normalizedConfigs)
           /\ normalizedConfigs[n].source = sources[s].source
           /\ normalizedConfigs[n].ref = sources[s].ref
           /\ normalizedConfigs[n].sourceToken = sources[s].source_token
      /\ \A d \in 1..Len(DefaultsOf(sources[s])) :
           /\ normalizedConfigs[EntriesBefore(s) + d].local_path
                = DefaultsOf(sources[s])[d]
           /\ normalizedConfigs[EntriesBefore(s) + d].source_path
                = DefaultsOf(sources[s])[d]
      /\ \A p \in 1..Len(PairsOf(sources[s])) :
           LET entry == PairsOf(sources[s])[p]
               task == normalizedConfigs[EntriesBefore(s)
                                           + Len(DefaultsOf(sources[s])) + p]
           IN /\ task.local_path = entry.local_path
              /\ Has(entry, "source_path") => task.source_path = entry.source_path
              /\ ~Has(entry, "source_path") => task.source_path = entry.local_path

C13_Witness ==
  /\ pc = "exit"
  /\ \E n, m \in 1..Len(normalizedConfigs) :
       /\ normalizedConfigs[n].sourceToken = T1
       /\ normalizedConfigs[n].ref = "v1"
       /\ normalizedConfigs[n].source = RepoR
       /\ normalizedConfigs[n].local_path = PB
       /\ normalizedConfigs[n].source_path = PA
       /\ normalizedConfigs[m].sourceToken = Undefined
       /\ normalizedConfigs[m].ref = Undefined
       /\ normalizedConfigs[m].local_path = PA
       /\ normalizedConfigs[m].source_path = PA
       /\ Provenance[m].fromPairs

\* what listFilesMatchingGlob gives for normalized entry n on its own
Listing(n) ==
  ListFilesMatchingGlob(Nth(Split(normalizedConfigs[n].source, "/"), 1),
                        Nth(Split(normalizedConfigs[n].source, "/"), 2),
                        normalizedConfigs[n].source_path,
                        normalizedConfigs[n].ref,
                        EffectiveToken(normalizedConfigs[n], githubToken),
                        EmptyCache)

\* normalized entries that expandGlobPatterns has handed to listFilesMatchingGlob
Listed ==
  {n \in 1..Len(normalizedConfigs) :
     n < k /\ IsGlobPattern(normalizedConfigs[n].source_path)}

\* the entries of the tree that the listing for entry n fetched
ListedTree(n) ==
  Trees[Listing(n).calls[Len(Listing(n).calls)].arg[1]]

\* the paths of the file entries of a tree that match a pattern
MatchingBlobs(tree, pattern) ==
  {tree[e].path : e \in {x \in 1..Len(tree) :
                           tree[x].type = "blob" /\ Minimatch(tree[x].path, pattern)}}

\* C14: a listing that succeeds returns each matching file entry of the
\* fetched tree once and nothing else, in particular no directory entry, in
\* ascending order.
C14_ListingExact ==
  \A n \in Listed :
    Listing(n).ok =>
      /\ {Listing(n).files[x] : x \in 1..Len(Listing(n).files)}
           = MatchingBlobs(ListedTree(n), normalizedConfigs[n].source_path)
      /\ Len(Listing(n).files)
           = Cardinality(MatchingBlobs(ListedTree(n), normalizedConfigs[n].source_path))
      /\ \A x \in 1..Len(Listing(n).files) :
           \A e \in 1..Len(ListedTree(n)) :
             ListedTree(n)[e].path = Listing(n).files[x]
               => ListedTree(n)[e].type # "tree"
      /\ \A x, y \in 1..Len(Listing(n).files) :
           x < y => StrLess(Listing(n).files[x], Listing(n).files[y])

C14_Witness ==
  /\ pc = "done"
  /\ 1 \in Listed
  /\ normalizedConfigs[1].source_path = <<"?">>
  /\ Listing(1).ok
  /\ Listing(1).files = <<PA, PB>>
  /\ \E e \in 1..Len(ListedTree(1)) :
       /\ ListedTree(1)[e].type = "tree"
       /\ Minimatch(ListedTree(1)[e].path, <<"?">>)
  /\ ListedTree(1)[1].path = PB

\* the calls of the expansion of normalized entry n, in order
ExpandCalls(n) ==
  SelectSeq(calls, LAMBDA c : c.run = run /\ c.phase = "expand" /\ c.idx = n)

IsLookup(c, kind) == c.op = "git.getRef" /\ c.arg[1] = kind

\* C15: the branch lookup comes first; the tag lookup comes only right
\* after a failed branch lookup, the commit lookup only right after a failed
\* tag lookup; a lookup that succeeds is followed by the tree request and by
\* no other lookup; a ref that is no branch but a tag gives the files of the
\* tree of that tag.
C15_RefChain ==
  \A n \in Listed :
    LET cs == ExpandCalls(n)
    IN /\ \A j \in 1..Len(cs) :
            /\ IsLookup(cs[j], "heads/") =>
                 \A q \in 1..(j - 1) : cs[q].op = "repos.get"
            /\ IsLookup(cs[j], "tags/") =>
                 j > 1 /\ IsLookup(cs[j - 1], "heads/") /\ ~cs[j - 1].ok
            /\ cs[j].op = "git.getCommit" =>
                 /\ j > 2
                 /\ IsLookup(cs[j - 1], "tags/") /\ ~cs[j - 1].ok
                 /\ IsLookup(cs[j - 2], "heads/") /\ ~cs[j - 2].ok
            /\ (cs[j].op \in {"git.getRef", "git.getCommit"} /\ cs[j].ok) =>
                 /\ j < Len(cs)
                 /\ cs[j + 1].op = "git.getTree"
            /\ cs[j].op = "git.getTree" =>
                 j > 1 /\ cs[j - 1].op \in {"git.getRef", "git.getCommit"}
                 /\ cs[j - 1].ok
       /\ LET c == normalizedConfigs[n]
              key == c.source
          IN (/\ Listing(n).ok
              /\ c.ref # Undefined
              /\ c.ref \notin DOMAIN Remote[key].heads
              /\ c.ref \in DOMAIN Remote[key].tags) =>
               /\ {Listing(n).files[x] : x \in 1..Len(Listing(n).files)}
                    = MatchingBlobs(Trees[Remote[key].tags[c.ref]], c.source_path)
               /\ ListedTree(n) = Trees[Remote[key].tags[c.ref]]

C15_Witness ==
  /\ pc = "done"
  /\ 1 \in Listed
  /\ normalizedConfigs[1].ref = "v1"
  /\ Listing(1).files = <<PA>>
  /\ Len(ExpandCalls(1)) = 3
  /\ IsLookup(ExpandCalls(1)[1], "heads/") /\ ~ExpandCalls(1)[1].ok
  /\ IsLookup(ExpandCalls(1)[2], "tags/") /\ ExpandCalls(1)[2].ok
  /\ ExpandCalls(1)[3].op = "git.getTree"

\* the calls a step has added to the log
NewCalls == SubSeq(calls', Len(calls) + 1, Len(calls'))

\* the log holds a successful default-branch answer for a repository with no
\* clearBranchCache after it
ResolvedSinceClear(log, key) ==
  \E q \in 1..Len(log) :
    /\ log[q].op = "repos.get" /\ log[q].ok /\ log[q].arg = key
    /\ \A j \in (q + 1)..Len(log) : log[j].op # "clearBranchCache"

\* the cache holds the default branch of exactly the repositories resolved
\* since the last clear
CacheTracksLog(cache, log) ==
  \A key \in DOMAIN Remote :
    /\ CacheHit(cache, key) <=> ResolvedSinceClear(log, key)
    /\ CacheHit(cache, key) => cache[key] = Remote[key].default_branch

\* a step that resolves the absent ref of `key` and then makes request `op`
ResolvesFromCache(key, op) ==
  IF ResolvedSinceClear(calls, key)
  THEN /\ \A j \in 1..Len(NewCalls) : NewCalls[j].op # "repos.get"
       /\ NewCalls # <<>> /\ NewCalls[1].op = op
       /\ op = "git.getRef" => NewCalls[1].arg = <<"heads/", defaultBranchCache[key]>>
       /\ pc' = "read" => fetchResult'.resolvedRef = defaultBranchCache[key]
  ELSE /\ NewCalls # <<>>
       /\ NewCalls[1].op = "repos.get" /\ NewCalls[1].arg = key

\* C16: once repos.get has answered for a repository, every later fetch or
\* expansion with an absent ref for it takes the branch from the cache and
\* issues no repos.get, until clearBranchCache; the first such resolution
\* after a clear (or before any answer) calls repos.get again.
C16_BranchCached ==
  [][/\ CacheTracksLog(defaultBranchCache', calls')
     /\ (/\ pc = "expand" /\ k' = k + 1
         /\ normalizedConfigs[k].ref = Undefined
         /\ IsGlobPattern(normalizedConfigs[k].source_path))
          => ResolvesFromCache(normalizedConfigs[k].source, "git.getRef")
     /\ (/\ pc = "fetch" /\ pc' # "fetch"
         /\ expandedConfigs[i].ref = Undefined)
          => ResolvesFromCache(expandedConfigs[i].source, "repos.getContent")]_vars

C16_Witness ==
  \E q1, q2, q3, q4 \in 1..Len(calls) :
    /\ q1 < q2 /\ q2 < q3 /\ q3 < q4
    /\ calls[q1].op = "repos.get" /\ calls[q1].ok /\ calls[q1].arg = RepoR
    /\ calls[q2].op = "repos.getContent" /\ calls[q2].run = 2 /\ calls[q2].ok
    /\ \A j \in (q1 + 1)..q2 : calls[j].op \notin {"repos.get", "clearBranchCache"}
    /\ calls[q3].op = "clearBranchCache"
    /\ calls[q4].op = "repos.get" /\ calls[q4].ok /\ calls[q4].arg = RepoR
    /\ defaultBranchCache[RepoR] = "main"

\* the remote rejected the credential at some request of the task at position n
CredentialRejected(n) ==
  \E j \in SyncCallsOf(n) :
    /\ calls[j].op \in RemoteOps
    /\ ~calls[j].ok
    /\ calls[j].token \notin ValidTokens

\* C17: a task during whose fetch the remote rejected the credential, at the
\* content request or at the default-branch lookup, has a failed result whose
\* error is 'Authentication failed for owner/repo. Check your token.' and
\* does not show the raw error of the remote.
C17_AuthFailureEnhanced ==
  \A n \in 1..Len(results) :
    CredentialRejected(n) =>
      /\ results[n].status = "failed"
      /\ ErrorOf(results[n])
           = <<"Authentication failed for ">> \o results[n].config.source
             \o <<". Check your token.">>
      /\ ~Includes(ErrorOf(results[n]), "Bad credentials")

\* the identifier has exactly two non-empty segments
WellFormed(source) ==
  /\ Len(Split(source, "/")) = 2
  /\ Split(source, "/")[1] # <<>>
  /\ Split(source, "/")[2] # <<>>

\* the task at position n got as far as its fetch
Fetching(n) ==
  \E j \in SyncCallsOf(n) : calls[j].op \in RemoteOps \cup {"throw"}

\* the remote answered not-found to a request of the task at position n
NotFound(n) ==
  \E j \in SyncCallsOf(n) :
    /\ calls[j].op \in RemoteOps
    /\ ~calls[j].ok
    /\ calls[j].token \in ValidTokens

\* the entry the Contents API found for the task at position n, if any
ContentEntries(n) ==
  LET c == results[n].config
      r == Remote[c.source]
      ref == IF c.ref = Undefined THEN r.default_branch ELSE c.ref
      t == Trees[RefTree(r, ref)]
  IN {t[e] : e \in {x \in 1..Len(t) : t[x].path = c.source_path}}

ContentAnswered(n) ==
  \E j \in SyncCallsOf(n) : calls[j].op = "repos.getContent" /\ calls[j].ok

\* C18: a malformed identifier fails with 'Invalid source format ...', a
\* directory with 'Path ... is a directory, not a file', empty content with
\* 'No content returned for ...'; a not-found answer of the remote is reported
\* as 'File not found: <path> in <owner>/<repo>@<ref>', and a rejected
\* credential is never reported as not found.
C18_DescriptiveErrors ==
  \A n \in 1..Len(results) :
    LET c == results[n].config
        err == ErrorOf(results[n])
    IN Fetching(n) =>
         /\ ~WellFormed(c.source) =>
              /\ results[n].status = "failed"
              /\ err = <<"Invalid source format: '">> \o c.source
                       \o <<"'. Expected 'owner/repo' format.">>
         /\ (WellFormed(c.source) /\ NotFound(n)) =>
              /\ results[n].status = "failed"
              /\ \E ref \in {"main", "dev", "v1", "v2", "zz", "c1"} :
                   /\ c.ref # Undefined => ref = c.ref
                   /\ err = <<"File not found: ">> \o c.source_path \o <<" in ">>
                            \o c.source \o <<"@", ref>>
         /\ (WellFormed(c.source) /\ ContentAnswered(n)) =>
              \A e \in ContentEntries(n) :
                /\ e.type = "tree" =>
                     /\ results[n].status = "failed"
                     /\ err = <<"Path '">> \o c.source_path
                              \o <<"' is a directory, not a file">>
                /\ (e.type = "blob" /\ e.content = "") =>
                     /\ results[n].status = "failed"
                     /\ err = <<"No content returned for '">> \o c.source_path
                              \o <<"'">>
         /\ CredentialRejected(n) => err[1] # "File not found: "

\* C19: every source that getInputs hands to syncFiles is an owner/repo
\* identifier with exactly two non-empty segments, and no result fails with
\* the invalid-source-format error of parseSource.
C19_MalformedRejected ==
  /\ \A s \in 1..Len(sources) : WellFormed(sources[s].source)
  /\ \A n \in 1..Len(results) :
       ErrorOf(results[n]) # <<>> =>
         ErrorOf(results[n])[1] # "Invalid source format: '"

\* results of the run whose file was written
ChangedResults ==
  {n \in 1..Len(results) : results[n].status \in {"updated", "created"}}

\* C20: when run() has returned, the five outputs are set, has-changes is
\* 'true' exactly when some file was updated or created, and updated-count
\* is the number of updated and created files.
C20_OutputsAlwaysSet ==
  pc = "exit" =>
    /\ DOMAIN outputs = {"has-changes", "updated-count", "failed-count",
                         "skipped-count", "summary"}
    /\ outputs["has-changes"] \in {<<"t", "r", "u", "e">>, <<"f", "a", "l", "s", "e">>}
    /\ outputs["has-changes"] = <<"t", "r", "u", "e">> <=> ChangedResults # {}
    /\ outputs["updated-count"] = NumberToString(Cardinality(ChangedResults))

\* the paths whose content differs between two working trees
Changed(before, after) == {p \in DOMAIN before : after[p].content # before[p].content}

\* the local paths of the tasks whose result is updated or created
WrittenPaths(rs) ==
  {rs[n].config.local_path :
     n \in {x \in 1..Len(rs) : rs[x].status \in {"updated", "created"}}}

LocalErrors(n) ==
  {j \in SyncCallsOf(n) :
     LET c == calls[j]
     IN \/ c.op = "fs.access" /\ fs0[c.arg].mode = "noaccess"
        \/ c.op = "fs.readFile" /\ fs0[c.arg].mode \in {"noaccess", "noread"}
        \/ c.op = "fs.writeFile" /\ fs0[c.arg].mode \in {"noaccess", "nowrite"}}

\* C22: a task whose existence check, read or write met a permission error
\* has a failed result that carries the error message; it is never handled as
\* a task whose file is absent.
C22_LocalErrorsFail ==
  \A n \in 1..Len(results) :
    LocalErrors(n) # {} =>
      /\ results[n].status = "failed"
      /\ ErrorOf(results[n]) = IoError("open", results[n].config.local_path)
         \/ ErrorOf(results[n]) = IoError("access", results[n].config.local_path)

\* the repositories for which the step got an answer to repos.get
Answered(log) ==
  {log[j].arg : j \in {x \in 1..Len(log) : log[x].op = "repos.get" /\ log[x].ok}}

\* the repository identifier of the task a step works on
StepSource ==
  IF pc = "expand" THEN {normalizedConfigs[n].source : n \in {k} \cap DOMAIN normalizedConfigs}
  ELSE {expandedConfigs[n].source : n \in {i} \cap DOMAIN expandedConfigs}

\* C23: a step other than clearBranchCache keeps every entry of the
\* default-branch cache as it is; the entries it adds are those of the
\* repositories for which repos.get answered in that step, so a failed lookup
\* adds none; a new entry is keyed by the repository identifier of the task,
\* whatever its ref, path or credential.
C23_CacheAppendOnly ==
  [][(calls' = calls \/ calls'[Len(calls')].op # "clearBranchCache") =>
       /\ \A key \in DOMAIN defaultBranchCache :
            /\ key \in DOMAIN defaultBranchCache'
            /\ defaultBranchCache'[key] = defaultBranchCache[key]
       /\ DOMAIN defaultBranchCache' \ DOMAIN defaultBranchCache = Answered(NewCalls)
       /\ DOMAIN defaultBranchCache' \ DOMAIN defaultBranchCache \subseteq StepSource]_vars

C23_Witness ==
  /\ run = 2
  /\ pc = "done"
  /\ sources[1].source = RepoR /\ sources[1].source_token = TX
  /\ sources[2].source = RepoR /\ sources[2].source_token = Undefined
  /\ DOMAIN defaultBranchCache = {RepoR}
  /\ defaultBranchCache[RepoR] = "main"
  /\ Cardinality({j \in 1..Len(calls) : calls[j].op = "repos.get"}) = 2
  /\ Cardinality({j \in 1..Len(calls) : calls[j].op = "repos.get" /\ calls[j].ok}) = 1

\* the positions of the expanded tasks that come from normalized entry n
TasksFrom(n) == {x \in 1..Len(expandedConfigs) : origin[x] = n}

\* the files a pattern entry matches when its listing succeeds
MatchesOf(n) ==
  LET l == Listing(n)
  IN IF l.ok
     THEN MatchingBlobs(Trees[l.calls[Len(l.calls)].arg[1]],
                        normalizedConfigs[n].source_path)
     ELSE {}

C25_ErrorOnlyWhenFailed ==
  \A n \in 1..Len(results) :
    Has(results[n], "error") => results[n].status = "failed"

\* pattern entries whose expansion ended in the catch block
ExpansionFailed(n) == \E j \in 1..Len(ExpandCalls(n)) : ExpandCalls(n)[j].op = "throw"

\* C26: a pattern entry whose listing fails stays in the expanded list, as it
\* was and at its position; the entries after it are still expanded; when the
\* run is over the failure shows as the failed result of that task.
C26_ExpansionFailureKept ==
  /\ pc \notin {"start", "expand"} =>
       \A n \in 1..Len(normalizedConfigs) : TasksFrom(n) # {}
  /\ \A n \in Listed :
       ExpansionFailed(n) =>
         /\ Cardinality(TasksFrom(n)) = 1
         /\ \A x \in TasksFrom(n) :
              /\ expandedConfigs[x] = normalizedConfigs[n]
              /\ \A y \in 1..Len(expandedConfigs) :
                   (y < x => origin[y] < n) /\ (y > x => origin[y] > n)
              /\ (pc = "done" /\ x <= Len(results)) => results[x].status = "failed"

\* positions in `calls` of the current run's calls of one phase
PhaseCalls(phase) ==
  {j \in 1..Len(calls) : calls[j].run = run /\ calls[j].phase = phase}

\* C27: every call of the expansion comes before every call of the sync
\* loop; the expansion makes remote calls only and leaves the working tree
\* alone; once it is over, every pattern entry has had its listing requested,
\* whatever failOnError and createMissing are.
C27_ExpansionFirst ==
  /\ \A e \in PhaseCalls("expand") : \A s \in PhaseCalls("sync") : e < s
  /\ \A e \in PhaseCalls("expand") : calls[e].op \in RemoteOps \cup {"throw"}
  /\ pc = "expand" => fs = fs0 /\ PhaseCalls("sync") = {} /\ results = <<>>
  /\ PhaseCalls("sync") # {} => k = Len(normalizedConfigs) + 1
  /\ pc \notin {"start", "expand"} =>
       \A n \in 1..Len(normalizedConfigs) :
         IsGlobPattern(normalizedConfigs[n].source_path) =>
           \E j \in PhaseCalls("expand") :
             calls[j].idx = n /\ calls[j].op \in RemoteOps

C27_Witness ==
  /\ pc = "done"
  /\ failOnError
  /\ Len(normalizedConfigs) = 2
  /\ IsGlobPattern(normalizedConfigs[1].source_path)
  /\ IsGlobPattern(normalizedConfigs[2].source_path)
  /\ ExpandCalls(1) # <<>> /\ ExpandCalls(2) # <<>>
  /\ Len(results) = 1 /\ results[1].status = "failed"
  /\ Len(expandedConfigs) > 2

\* C28: with createMissing false no step gives a result created and no step
\* makes a file that was not there, however the other process deletes files.
C28_NeverCreates ==
  [][~createMissing =>
       /\ \A n \in 1..Len(results') : results'[n].status # "created"
       /\ \A p \in DOMAIN fs : fs[p].content = Null => fs'[p].content = Null]_vars

\* C29: with failOnError a returned summary has at most one failed result,
\* and that result is the last one the run processed: all results before it
\* are updated, created or skipped.
C29_AtMostOneFailed ==
  (pc = "done" /\ failOnError) =>
    /\ Len(summary.failed) <= 1
    /\ Len(summary.failed) = 1 =>
         /\ results # <<>>
         /\ summary.failed[1] = results[Len(results)]
         /\ summary.total = Len(results)
         /\ \A n \in 1..(Len(results) - 1) :
              results[n].status \in {"updated", "created", "skipped"}
         /\ \A n \in 1..Len(expandedConfigs) : n > Len(results) => ~Processed(n)

C29_Witness ==
  /\ pc = "done" /\ failOnError
  /\ Len(results) = 2
  /\ Len(expandedConfigs) = 3
  /\ results[1].status \in {"updated", "created"}
  /\ results[2].status = "failed"
  /\ Len(summary.failed) = 1

\* C30: in a returned summary hasChanges and allFailed are not both true, and
\* exactly one of the three verdicts applies: changes detected (hasChanges),
\* all files failed (allFailed), no changes detected (neither).
C30_VerdictsExclusive ==
  pc = "done" =>
    /\ ~(summary.hasChanges /\ summary.allFailed)
    /\ Verdict(summary) = "Changes detected" <=> summary.hasChanges
    /\ Verdict(summary) = "All files failed" <=> summary.allFailed
    /\ Verdict(summary) = "No changes detected"
         <=> (~summary.hasChanges /\ ~summary.allFailed)
    /\ summary.hasChanges <=> \E n \in 1..Len(results) :
                                results[n].status \in {"updated", "created"}
    /\ summary.allFailed <=>
         (results # <<>> /\ \A n \in 1..Len(results) : results[n].status = "failed")

C30_Witness ==
  /\ pc = "done"
  /\ Verdict(summary) = "All files failed"
  /\ summary.allFailed /\ ~summary.hasChanges
  /\ Len(results) = 2

====
